---- MODULE Spec2Model ----
(***************************************************************************)
(* Reference resolution of the CaaSMapper (src/modules/CaaSMapper.ts) and  *)
(* the fetchByFilter entry point (src/modules/FSXARemoteApi.ts).           *)
(*                                                                         *)
(* A string is a sequence of symbols.  "." and "#" are the two separator   *)
(* symbols the code searches for; every other symbol stands for a run of   *)
(* characters that holds no separator ("a", "en", "m", ...).  undefined    *)
(* and the empty string, both falsy in the code, are the empty sequence.   *)
(***************************************************************************)
EXTENDS Integers, Sequences, FiniteSets, TLC

VARIABLES
  locale,              \* CaaSMapper.locale
  remotes,             \* Object.values(api.remotes), in insertion order
  utils,               \* the utils argument of the constructor
  customMapper,        \* CaaSMapper.customMapper: the hook, or none
  maxReferenceDepth,   \* CaaSMapper.maxReferenceDepth
  referenceDepth,      \* CaaSMapper.referenceDepth
  resolvedReferences,  \* CaaSMapper.resolvedReferences: key -> item
  referencedItems,     \* CaaSMapper._referencedItems, keys in insertion order
  remoteReferences,    \* CaaSMapper._remoteReferences, projects in insertion order
  store,               \* the content of the CaaS: project -> entities
  tasks,               \* every fetchByFilter call issued so far, in issue order
  result,              \* what the top-level fetchByFilter call resolved with
  call,                \* the last direct call of a mapper method and its return value
  other                \* the mapper of a second top-level fetchByFilter call

vars == <<locale, remotes, utils, customMapper, maxReferenceDepth, referenceDepth,
          resolvedReferences, referencedItems, remoteReferences, store,
          tasks, result, call, other>>

----------------------------------------------------------------------------
(* Program constants                                                       *)

REFERENCED_ITEMS_CHUNK_SIZE == 30

DEFAULT_MAX_REFERENCE_DEPTH == 10

----------------------------------------------------------------------------
(* Bounds of the model                                                     *)

\* largest maxReferenceDepth a caller configures explicitly
MaxDepth == 2

\* number of direct registerReferencedItem calls made on one mapper
MaxRegistrations == 2

\* number of fetches of one request that fail
MaxFailures == 1

\* how many references one batch of items registers for one project
MaxIds == 65

----------------------------------------------------------------------------
(* String primitives                                                       *)

\* String.prototype.indexOf: 0-based index of the first occurrence, else -1
IndexOf(s, c) ==
  IF \E i \in 1..Len(s) : s[i] = c
  THEN (CHOOSE i \in 1..Len(s) : s[i] = c /\ \A j \in 1..(i - 1) : s[j] # c) - 1
  ELSE -1

\* String.prototype.substring: arguments clamped to [0, length], swapped
\* when start > end
Substring(s, start, end) ==
  LET clamp(n) == IF n < 0 THEN 0 ELSE IF n > Len(s) THEN Len(s) ELSE n
      a == clamp(start)
      b == clamp(end)
  IN  IF a <= b THEN SubSeq(s, a + 1, b) ELSE SubSeq(s, b + 1, a)

----------------------------------------------------------------------------
(* Keyed objects with insertion order (ReferencedItemsInfo and the         *)
(* _remoteReferences object): a sequence of [id, val] entries.             *)

ObjectKeys(o) == [i \in 1..Len(o) |-> o[i].id]

KeySet(o) == {o[i].id : i \in 1..Len(o)}

Has(o, k) == \E i \in 1..Len(o) : o[i].id = k

\* o[k], the default standing for undefined
Get(o, k, default) ==
  IF Has(o, k) THEN o[CHOOSE i \in 1..Len(o) : o[i].id = k].val ELSE default

\* o[k] = v: an existing key keeps its position, a new key goes last
Set(o, k, v) ==
  IF Has(o, k)
  THEN [i \in 1..Len(o) |-> IF o[i].id = k THEN [id |-> k, val |-> v] ELSE o[i]]
  ELSE Append(o, [id |-> k, val |-> v])

----------------------------------------------------------------------------
(* Remote project configuration                                            *)

\* no RemoteProjectConfigurationEntry (undefined)
NoRemote == [defined |-> FALSE, id |-> <<>>, locale |-> <<>>]

RemoteEntry(id, loc) == [defined |-> TRUE, id |-> id, locale |-> loc]

getRemoteConfigForProject(projectId) ==
  IF projectId # <<>> /\ \E i \in 1..Len(remotes) : remotes[i].id = projectId
  THEN remotes[CHOOSE i \in 1..Len(remotes) :
                 /\ remotes[i].id = projectId
                 /\ \A j \in 1..(i - 1) : remotes[j].id # projectId]
  ELSE NoRemote

----------------------------------------------------------------------------
(* Identifier Unifier                                                      *)

unifyIdNoOverride(id, remoteProjectConfiguration) ==
  LET indexOfSeparator == IndexOf(id, ".")
      remoteLocale == remoteProjectConfiguration.locale
      idWithLocale ==
        IF indexOfSeparator > 0
        THEN id
        ELSE id \o <<".">> \o (IF remoteLocale # <<>> THEN remoteLocale ELSE locale)
  IN  IF remoteProjectConfiguration.defined
      THEN remoteProjectConfiguration.id \o <<"#">> \o idWithLocale
      ELSE idWithLocale

unifyIdNoLocale(id, remoteProjectConfiguration) ==
  LET indexOfSeparator == IndexOf(id, ".")
      remoteLocale == remoteProjectConfiguration.locale
      idWithLocale ==
        IF indexOfSeparator > 0
        THEN IF remoteLocale # <<>>
             THEN Substring(id, 0, indexOfSeparator) \o <<".">> \o remoteLocale
             ELSE id
        ELSE id
  IN  IF remoteProjectConfiguration.defined
      THEN remoteProjectConfiguration.id \o <<"#">> \o idWithLocale
      ELSE idWithLocale

unifyId(id, remoteProjectConfiguration) ==
  LET indexOfSeparator == IndexOf(id, ".")
      remoteLocale == remoteProjectConfiguration.locale
      idWithLocale ==
        IF indexOfSeparator > 0
        THEN IF remoteLocale # <<>>
             THEN Substring(id, 0, indexOfSeparator) \o <<".">> \o remoteLocale
             ELSE id
        ELSE id \o <<".">> \o (IF remoteLocale # <<>> THEN remoteLocale ELSE locale)
  IN  IF remoteProjectConfiguration.defined
      THEN remoteProjectConfiguration.id \o <<"#">> \o idWithLocale
      ELSE idWithLocale

----------------------------------------------------------------------------
(* Reference Registration.  reg holds the two registries, referencedItems  *)
(* and remoteReferences; the value is reg after the call with the returned *)
(* placeholder as ret.                                                     *)

\* the registry writes and the returned placeholder
recordReferenceLocalToken(reg, remoteProjectKey, unifiedId, path, imageMapResolution) ==
  IF remoteProjectKey # <<>>
  THEN [reg EXCEPT
          !.remoteReferences =
             Set(@, remoteProjectKey,
                 Set(Get(@, remoteProjectKey, <<>>), unifiedId,
                     Append(Get(Get(@, remoteProjectKey, <<>>), unifiedId, <<>>), path))),
          !.ret = IF imageMapResolution # <<>>
                  THEN <<"IMAGEMAP___">> \o imageMapResolution \o <<"___">> \o unifiedId
                  ELSE <<"[REFERENCED-ITEM-">> \o unifiedId \o <<"]">>]
  ELSE [reg EXCEPT
          !.referencedItems = Set(@, unifiedId, Append(Get(@, unifiedId, <<>>), path)),
          !.ret = IF imageMapResolution # <<>>
                  THEN <<"IMAGEMAP___">> \o imageMapResolution \o <<"___">> \o unifiedId
                  ELSE <<"[REFERENCED-ITEM-">> \o unifiedId \o <<"]">>]

recordReferenceOverwrite(reg, remoteProjectKey, unifiedId, path, imageMapResolution) ==
  IF remoteProjectKey # <<>>
  THEN [reg EXCEPT
          !.remoteReferences =
             Set(@, remoteProjectKey,
                 Set(Get(@, remoteProjectKey, <<>>), unifiedId, <<path>>)),
          !.ret = IF imageMapResolution # <<>>
                  THEN <<"IMAGEMAP___">> \o imageMapResolution \o <<"___">> \o unifiedId
                  ELSE <<"[REFERENCED-REMOTE-ITEM-">> \o unifiedId \o <<"]">>]
  ELSE [reg EXCEPT
          !.referencedItems = Set(@, unifiedId, <<path>>),
          !.ret = IF imageMapResolution # <<>>
                  THEN <<"IMAGEMAP___">> \o imageMapResolution \o <<"___">> \o unifiedId
                  ELSE <<"[REFERENCED-ITEM-">> \o unifiedId \o <<"]">>]

recordReference(reg, remoteProjectKey, unifiedId, path, imageMapResolution) ==
  IF remoteProjectKey # <<>>
  THEN [reg EXCEPT
          !.remoteReferences =
             Set(@, remoteProjectKey,
                 Set(Get(@, remoteProjectKey, <<>>), unifiedId,
                     Append(Get(Get(@, remoteProjectKey, <<>>), unifiedId, <<>>), path))),
          !.ret = IF imageMapResolution # <<>>
                  THEN <<"IMAGEMAP___">> \o imageMapResolution \o <<"___">> \o unifiedId
                  ELSE <<"[REFERENCED-REMOTE-ITEM-">> \o unifiedId \o <<"]">>]
  ELSE [reg EXCEPT
          !.referencedItems = Set(@, unifiedId, Append(Get(@, unifiedId, <<>>), path)),
          !.ret = IF imageMapResolution # <<>>
                  THEN <<"IMAGEMAP___">> \o imageMapResolution \o <<"___">> \o unifiedId
                  ELSE <<"[REFERENCED-ITEM-">> \o unifiedId \o <<"]">>]

\* the registration once remoteData is looked up
registerWithRemoteDataAsGiven(reg, identifier, path, remoteProjectId, remoteData, imageMapResolution) ==
  recordReference(reg, remoteProjectId, unifyId(identifier, remoteData), path,
                  imageMapResolution)

registerWithRemoteData(reg, identifier, path, remoteProjectId, remoteData, imageMapResolution) ==
  recordReference(reg, remoteData.id, unifyId(identifier, remoteData), path,
                  imageMapResolution)

registerReferencedItem(reg, identifier, path, remoteProjectId, imageMapResolution) ==
  registerWithRemoteData(reg, identifier, path, remoteProjectId,
                         getRemoteConfigForProject(remoteProjectId), imageMapResolution)

\* registries alone, no value returned yet and no error thrown
Registries(m) ==
  [referencedItems |-> m.referencedItems, remoteReferences |-> m.remoteReferences,
   ret |-> <<>>, threw |-> FALSE, hooked |-> <<>>]

\* reg after one more mapping, its value appended to the values so far
Push(sofar, one) == [one EXCEPT !.ret = Append(sofar, @)]

----------------------------------------------------------------------------
(* Item identity and preview ids                                           *)

buildPreviewId(identifier, remoteProjectLocale) ==
  identifier \o <<".">> \o
    (IF remoteProjectLocale # <<>> THEN remoteProjectLocale ELSE locale)

\* MappingUtils.getItemId: the item's own uuid and locale (the preview id of
\* a mapped item, a page's being built from its reference id), prefixed
\* with the remote project when one is given
getItemId(item, remoteProjectId) ==
  (IF remoteProjectId # <<>> THEN remoteProjectId \o <<"#">> ELSE <<>>) \o
  (IF item.mapped THEN item.previewId ELSE item.identifier \o <<".">> \o item.locale)

\* MappingUtils.findResolvedReferencesByIds: the cached item of every id
\* that has one, in the order of ids
findResolvedReferencesByIds(ids, resolved) ==
  LET found == SelectSeq(ids, LAMBDA id : Has(resolved, id))
  IN  [i \in 1..Len(found) |-> Get(resolved, found[i], <<>>)]

addToResolvedReferencesKeyed(resolved, id, item) ==
  IF id # <<>> THEN Set(resolved, id, item) ELSE resolved

addToResolvedReferences(resolved, item, remoteProjectId) ==
  addToResolvedReferencesKeyed(resolved, getItemId(item, remoteProjectId), item)

----------------------------------------------------------------------------
(* Content Tree Mapper.  An item of the store is                           *)
(*   [identifier, fsType, formData],                                       *)
(* formData a sequence of entries [key, fsType, identifier, remoteProject, *)
(* resolution]: the reference-bearing field kinds of mapDataEntry, and     *)
(* other kinds, which carry no reference.                                  *)

\* the kinds whose case returns entry.value
ValueKinds == {"CMS_INPUT_NUMBER", "CMS_INPUT_TEXT", "CMS_INPUT_TEXTAREA"}

mapDataEntryStrict(reg, entry, path, remoteProjectId) ==
  IF entry.fsType \in ValueKinds
  THEN [reg EXCEPT !.ret = entry.identifier]
  ELSE [registerReferencedItem(reg, entry.identifier, path, remoteProjectId, <<>>)
          EXCEPT !.threw = entry.fsType = "FS_BUTTON", !.ret = entry]

\* what a case returns for an entry it cannot map
null == <<>>

\* an image map: its media is registered with the resolution of the map
mapImageMap(reg, imageMap, path, remoteProjectId) ==
  IF ~imageMap.value
  THEN [reg EXCEPT !.threw = TRUE, !.ret = null]
  ELSE [registerReferencedItem(reg, imageMap.identifier, path \o << <<"media">> >>,
                               imageMap.remoteProject, imageMap.resolution)
          EXCEPT !.ret = [type |-> "ImageMap", media |-> @]]

\* what the hook answers for an entry: a hook is given by the kinds of entry
\* it maps itself, for the others it returns undefined
CustomResult(entry) ==
  [defined |-> entry.fsType \in customMapper.intercepts,
   value |-> <<"custom">> \o entry.key]

\* the switch of mapDataEntry.  The identifier of an entry is the identifier
\* its value refers to; for the kinds without reference it is the value itself
mapBuiltIn(reg, entry, path, remoteProjectId) ==
  CASE entry.fsType \in {"FS_REFERENCE", "FS_DATASET", "CMS_INPUT_IMAGEMAP"}
       /\ ~entry.value -> [reg EXCEPT !.ret = null]
    [] entry.fsType = "FS_INDEX" /\ ~entry.value ->
         [reg EXCEPT !.threw = TRUE, !.ret = null]
    [] entry.fsType = "FS_REFERENCE" ->
         registerReferencedItem(reg, entry.identifier, path,
           IF entry.remoteProject # <<>> THEN entry.remoteProject ELSE remoteProjectId,
           <<>>)
    [] entry.fsType = "FS_DATASET" ->
         registerReferencedItem(reg, entry.identifier, path, remoteProjectId, <<>>)
    [] entry.fsType = "FS_INDEX" ->
         [registerReferencedItem(reg, entry.identifier, path \o << <<"0">> >>,
                                 remoteProjectId, <<>>)
            EXCEPT !.ret = <<@>>]
    [] entry.fsType = "CMS_INPUT_IMAGEMAP" ->
         mapImageMap(reg, entry, path, remoteProjectId)
    [] entry.fsType \in ValueKinds -> [reg EXCEPT !.ret = entry.identifier]
    [] OTHER -> [reg EXCEPT !.ret = entry]

mapDataEntryHookLast(reg, entry, path, remoteProjectId) ==
  IF ~customMapper.defined
  THEN mapBuiltIn(reg, entry, path, remoteProjectId)
  ELSE [mapBuiltIn([reg EXCEPT !.hooked = Append(@, path)], entry, path,
                   remoteProjectId)
          EXCEPT !.ret = IF CustomResult(entry).defined
                         THEN CustomResult(entry).value ELSE @]

\* the hook first (reg.hooked: the paths it was called with), the switch
\* when there is no hook or it returned undefined
mapDataEntry(reg, entry, path, remoteProjectId) ==
  IF ~customMapper.defined
  THEN mapBuiltIn(reg, entry, path, remoteProjectId)
  ELSE IF CustomResult(entry).defined
       THEN [reg EXCEPT !.hooked = Append(@, path),
                        !.ret = CustomResult(entry).value]
       ELSE mapBuiltIn([reg EXCEPT !.hooked = Append(@, path)], entry, path,
                       remoteProjectId)

\* one key of mapDataEntries: the mapped entry under its key
mapKeyedEntry(reg, entry, path, remoteProjectId) ==
  [mapDataEntry(reg, entry, path \o <<entry.key>>, remoteProjectId)
     EXCEPT !.ret = [key |-> entry.key, val |-> @]]

RECURSIVE mapDataEntriesFrom(_, _, _, _, _)
mapDataEntriesFrom(reg, entries, i, path, remoteProjectId) ==
  IF i > Len(entries) THEN reg
  ELSE mapDataEntriesFrom(
         Push(reg.ret, mapKeyedEntry(reg, entries[i], path, remoteProjectId)),
         entries, i + 1, path, remoteProjectId)

mapDataEntries(reg, entries, path, remoteProjectId) ==
  mapDataEntriesFrom([reg EXCEPT !.ret = <<>>], entries, 1, path, remoteProjectId)

\* an index of an array as a path segment
Index(i) == <<ToString(i - 1)>>

----------------------------------------------------------------------------
(* The sibling mappings of one object or list are started together and     *)
(* awaited with Promise.all.  With a hook every mapDataEntry call awaits   *)
(* the hook before it goes on, so the siblings go on in the order in which *)
(* their hook calls complete: order[k] is the sibling that goes on k-th.   *)

PromiseAllAsCompleted(order, done) == done

\* the array Promise.all resolves with: the value of the i-th promise at i,
\* done holding the values in the order of completion
PromiseAll(order, done) ==
  [i \in 1..Len(done) |-> done[CHOOSE k \in 1..Len(order) : order[k] = i]]

\* the path segment of a sibling: its key in an object, its index in a list
Segment(entries, i, keyed) == IF keyed THEN entries[i].key ELSE Index(i)

RECURSIVE mapInOrderFrom(_, _, _, _, _, _, _)
mapInOrderFrom(reg, entries, path, remoteProjectId, keyed, order, k) ==
  IF k > Len(order) THEN reg
  ELSE mapInOrderFrom(
         Push(reg.ret, mapDataEntry(reg, entries[order[k]],
                                    path \o <<Segment(entries, order[k], keyed)>>,
                                    remoteProjectId)),
         entries, path, remoteProjectId, keyed, order, k + 1)

\* keys.reduce: the key at index i with the mapped value at index i
Keyed(entries, mappedEntries) ==
  [i \in 1..Len(entries) |-> [key |-> entries[i].key, val |-> mappedEntries[i]]]

mapDataEntriesAwaiting(reg, entries, path, remoteProjectId, order) ==
  [mapInOrderFrom([reg EXCEPT !.ret = <<>>], entries, path, remoteProjectId,
                  TRUE, order, 1)
     EXCEPT !.ret = Keyed(entries, PromiseAll(order, @))]

\* the case CMS_INPUT_LIST of mapDataEntry, the hook having returned
\* undefined for the list itself
mapListEntry(reg, entry, path, remoteProjectId, order) ==
  IF ~entry.value THEN [reg EXCEPT !.ret = <<>>]
  ELSE [mapInOrderFrom([reg EXCEPT !.ret = <<>>], entry.items, path,
                       remoteProjectId, FALSE, order, 1)
          EXCEPT !.ret = PromiseAll(order, @)]

SectionKinds == {"Section", "SectionReference", "GCASection"}

mapBodyContentLenient(reg, content, path, remoteProjectId) ==
  IF content.fsType \in SectionKinds
  THEN [mapDataEntries(reg, content.formData, path \o << <<"data">> >>, remoteProjectId)
          EXCEPT !.ret = [type |-> "Section", id |-> content.identifier, data |-> @]]
  ELSE [reg EXCEPT !.ret = content]

\* Content2Section and the section kinds are mapped, any other kind throws
mapBodyContent(reg, content, path, remoteProjectId) ==
  CASE content.fsType = "Content2Section" ->
         [reg EXCEPT !.ret = [type |-> "Section", id |-> content.identifier,
                              data |-> <<>>]]
    [] content.fsType \in SectionKinds ->
         [mapDataEntries(reg, content.formData, path \o << <<"data">> >>,
                         remoteProjectId)
            EXCEPT !.ret = [type |-> "Section", id |-> content.identifier, data |-> @]]
    [] OTHER -> [reg EXCEPT !.threw = TRUE, !.ret = <<>>]

\* the children.map of mapPageBody: every child is mapped, also after one
\* of them has thrown
RECURSIVE mapBodyContentsFrom(_, _, _, _, _)
mapBodyContentsFrom(reg, children, i, path, remoteProjectId) ==
  IF i > Len(children) THEN reg
  ELSE mapBodyContentsFrom(
         Push(reg.ret, mapBodyContent(reg, children[i],
                                      path \o << <<"children">>, Index(i) >>,
                                      remoteProjectId)),
         children, i + 1, path, remoteProjectId)

mapPageBody(reg, body, path, remoteProjectId) ==
  [mapBodyContentsFrom([reg EXCEPT !.ret = <<>>], body, 1, path, remoteProjectId)
     EXCEPT !.ret = [type |-> "PageBody", children |-> @]]

\* the children.map of mapPageRef and mapGCAPage
RECURSIVE mapPageBodiesFrom(_, _, _, _, _)
mapPageBodiesFrom(reg, bodies, i, path, remoteProjectId) ==
  IF i > Len(bodies) THEN reg
  ELSE mapPageBodiesFrom(
         Push(reg.ret, mapPageBody(reg, bodies[i],
                                   path \o << <<"children">>, Index(i) >>,
                                   remoteProjectId)),
         bodies, i + 1, path, remoteProjectId)

MappedKinds == {"Dataset", "PageRef", "Media", "GCAPage", "ProjectProperties"}

\* the kinds whose mapper awaits the page bodies before it maps the data
PageKinds == {"PageRef", "GCAPage"}

MappedType(fsType) ==
  CASE fsType = "PageRef" -> "Page"
    [] fsType = "Media" -> "Image"
    [] OTHER -> fsType

\* an entity mapper from the await of its children on: a rejected await
\* ends it, else the data entries are mapped
mapItemData(children, unmappedItem, remoteProjectLocale, remoteProjectId) ==
  IF children.threw
  THEN [children EXCEPT !.ret = <<>>]
  ELSE [mapDataEntries(children, unmappedItem.formData,
                       <<getItemId(unmappedItem, remoteProjectId), <<"data">> >>,
                       remoteProjectId)
          EXCEPT !.ret = [mapped |-> TRUE,
                          type |-> MappedType(unmappedItem.fsType),
                          id |-> unmappedItem.identifier,
                          previewId |-> buildPreviewId(unmappedItem.identifier,
                                                       remoteProjectLocale),
                          children |-> children.ret,
                          data |-> @,
                          remoteProjectId |-> remoteProjectId]]

\* an entity mapper: the page bodies of a page first
mapEntity(reg, unmappedItem, remoteProjectLocale, remoteProjectId) ==
  mapItemData(
    mapPageBodiesFrom([reg EXCEPT !.ret = <<>>],
                      IF unmappedItem.fsType \in PageKinds
                      THEN unmappedItem.children ELSE <<>>,
                      1, <<getItemId(unmappedItem, remoteProjectId)>>, remoteProjectId),
    unmappedItem, remoteProjectLocale, remoteProjectId)

\* one element of the items.map of mapFilterResponse; an error thrown for
\* an earlier item stays thrown
mapItem(reg, unmappedItem, remoteProjectLocale, remoteProjectId) ==
  IF unmappedItem.fsType \in MappedKinds
  THEN [mapEntity([reg EXCEPT !.threw = FALSE], unmappedItem, remoteProjectLocale,
                  remoteProjectId)
          EXCEPT !.threw = @ \/ reg.threw]
  ELSE [reg EXCEPT !.ret = unmappedItem]

RECURSIVE mapItemsFrom(_, _, _, _, _)
mapItemsFrom(reg, unmappedItems, i, remoteProjectLocale, remoteProjectId) ==
  IF i > Len(unmappedItems) THEN reg
  ELSE mapItemsFrom(
         Push(reg.ret, mapItem(reg, unmappedItems[i], remoteProjectLocale,
                               remoteProjectId)),
         unmappedItems, i + 1, remoteProjectLocale, remoteProjectId)

addNoneToResolvedReferences(resolved, items, i, remoteProjectId) == resolved

RECURSIVE addAllToResolvedReferences(_, _, _, _)
addAllToResolvedReferences(resolved, items, i, remoteProjectId) ==
  IF i > Len(items) THEN resolved
  ELSE addAllToResolvedReferences(
         addToResolvedReferences(resolved, items[i], remoteProjectId),
         items, i + 1, remoteProjectId)

----------------------------------------------------------------------------
(* Resolution Scheduler                                                    *)

RECURSIVE chunkWhole(_, _)
chunkWhole(array, size) ==
  IF Len(array) < size THEN <<>>
  ELSE <<SubSeq(array, 1, size)>> \o chunkWhole(SubSeq(array, size + 1, Len(array)), size)

\* lodash chunk
RECURSIVE chunk(_, _)
chunk(array, size) ==
  IF Len(array) = 0 THEN <<>>
  ELSE <<SubSeq(array, 1, IF Len(array) < size THEN Len(array) ELSE size)>>
       \o chunk(SubSeq(array, size + 1, Len(array)), size)

\* the store-level id resolveReferencesPerProject derives from a registered key
StoreId(id) == Substring(id, IndexOf(id, "#") + 1, IndexOf(id, "."))

\* a fetchByFilter call: its parameters, the mapFilterResponse call that
\* issued it (0: the caller of the API), and how far it has come
Fetch(remoteProjectId, loc, ids, parent) ==
  [remoteProject |-> remoteProjectId, locale |-> loc, ids |-> ids,
   parent |-> parent, status |-> "inflight", itemIds |-> <<>>]

StoreIds(keys) == [i \in 1..Len(keys) |-> StoreId(keys[i])]

idsToFetchRegistered(remoteProjectId, resolved, reg) ==
  StoreIds(ObjectKeys(IF remoteProjectId # <<>>
                      THEN Get(reg.remoteReferences, remoteProjectId, <<>>)
                      ELSE reg.referencedItems))

idsToFetchFromCaaS(remoteProjectId, resolved, reg) ==
  StoreIds(SelectSeq(ObjectKeys(IF remoteProjectId # <<>>
                                THEN Get(reg.remoteReferences, remoteProjectId, <<>>)
                                ELSE reg.referencedItems),
                     LAMBDA id : ~Has(resolved, id)))

\* one fetch per chunk
FetchChunks(idChunks, remoteProjectId, loc, parent) ==
  [i \in 1..Len(idChunks) |-> Fetch(remoteProjectId, loc, idChunks[i], parent)]

RemoteLocaleOr(remoteProjectLocale) ==
  IF remoteProjectLocale # <<>> THEN remoteProjectLocale ELSE locale

\* the fetches one call issues
resolveReferencesPerProject(remoteProjectId, resolved, reg, parent) ==
  FetchChunks(chunk(idsToFetchFromCaaS(remoteProjectId, resolved, reg),
                    REFERENCED_ITEMS_CHUNK_SIZE),
              remoteProjectId,
              RemoteLocaleOr(getRemoteConfigForProject(remoteProjectId).locale),
              parent)

RECURSIVE resolveRemoteProjectsFrom(_, _, _, _, _)
resolveRemoteProjectsFrom(remoteIds, i, resolved, reg, parent) ==
  IF i > Len(remoteIds) THEN <<>>
  ELSE resolveReferencesPerProject(remoteIds[i], resolved, reg, parent)
       \o resolveRemoteProjectsFrom(remoteIds, i + 1, resolved, reg, parent)

resolveRemoteProjectsOnly(resolved, reg, parent) ==
  resolveRemoteProjectsFrom(ObjectKeys(reg.remoteReferences), 1, resolved, reg, parent)

\* the Promise.all of resolveAllReferences: the local project, then every
\* remote project
resolveEveryProject(resolved, reg, parent) ==
  resolveReferencesPerProject(<<>>, resolved, reg, parent)
  \o resolveRemoteProjectsFrom(ObjectKeys(reg.remoteReferences), 1, resolved, reg, parent)

\* a call that leaves the depth counter as it is
resolveAllReferencesUncounted(depth, resolved, reg, parent) ==
  IF depth >= maxReferenceDepth
  THEN [referenceDepth |-> depth, issued |-> <<>>]
  ELSE [referenceDepth |-> depth,
        issued |-> resolveEveryProject(resolved, reg, parent)]

\* the depth counter after the call and the fetches it issued
resolveAllReferencesOffByOne(depth, resolved, reg, parent) ==
  IF depth > maxReferenceDepth
  THEN [referenceDepth |-> depth, issued |-> <<>>]
  ELSE [referenceDepth |-> depth + 1,
        issued |-> resolveEveryProject(resolved, reg, parent)]

resolveAllReferences(depth, resolved, reg, parent) ==
  IF depth >= maxReferenceDepth
  THEN [referenceDepth |-> depth, issued |-> <<>>]
  ELSE [referenceDepth |-> depth + 1,
        issued |-> resolveEveryProject(resolved, reg, parent)]

----------------------------------------------------------------------------
(* Response Assembler.  m is the state of the mapper and of the fetches:   *)
(* [referencedItems, remoteReferences, resolvedReferences, referenceDepth, *)
(*  tasks, result].                                                        *)

ItemIds(items) == [i \in 1..Len(items) |-> getItemId(items[i], <<>>)]

\* the top-level fetchByFilter call is pending
NotReturned ==
  [returned |-> FALSE, failed |-> FALSE, mappedItems |-> <<>>,
   referenceMap |-> <<>>, resolvedReferences |-> <<>>]

\* the top-level fetchByFilter call has thrown
Failed == [NotReturned EXCEPT !.failed = TRUE]

rejectParentNot(m, p) == m

\* a rejected fetchByFilter rejects the Promise.all that awaits it, and
\* with it the mapFilterResponse call and the fetchByFilter call of p
RECURSIVE rejectParent(_, _)
rejectParent(m, p) ==
  IF p > 0 /\ m.tasks[p].status = "awaiting"
  THEN rejectParent([m EXCEPT !.tasks[p].status = "rejected",
                              !.result = IF m.tasks[p].parent = 0 THEN Failed ELSE @],
                    m.tasks[p].parent)
  ELSE m

\* fetchByFilter call t throws
reject(m, t, status) ==
  rejectParent([m EXCEPT !.tasks[t].status = status,
                         !.result = IF m.tasks[t].parent = 0 THEN Failed ELSE @],
               m.tasks[t].parent)

\* mapFilterResponse at the await of resolveAllReferences
mapFilterResponseAwaiting(m, t, mapping, resolved, round) ==
  [referencedItems    |-> mapping.referencedItems,
   remoteReferences   |-> mapping.remoteReferences,
   resolvedReferences |-> resolved,
   referenceDepth     |-> round.referenceDepth,
   tasks  |-> [m.tasks EXCEPT ![t].status = "awaiting",
                              ![t].itemIds = ItemIds(mapping.ret)]
              \o round.issued,
   result |-> m.result]

\* mapFilterResponse once the items are cached
mapFilterResponseSeeded(m, t, mapping, resolved) ==
  mapFilterResponseAwaiting(m, t, mapping, resolved,
    IF Len(mapping.ret) > 0
    THEN resolveAllReferences(m.referenceDepth, resolved, mapping, t)
    ELSE [referenceDepth |-> m.referenceDepth, issued |-> <<>>])

\* mapFilterResponse once the items are mapped
\* mapFilterResponse once the items are mapped: an error thrown by a mapper
\* rejects the call, the references registered meanwhile stay registered
mapFilterResponseMapped(m, t, mapping, remoteProjectId) ==
  IF mapping.threw
  THEN reject([m EXCEPT !.referencedItems = mapping.referencedItems,
                        !.remoteReferences = mapping.remoteReferences],
              t, "rejected")
  ELSE mapFilterResponseSeeded(m, t, mapping,
         addAllToResolvedReferences(m.resolvedReferences, mapping.ret, 1,
                                    remoteProjectId))

\* mapFilterResponse up to the await of resolveAllReferences, called by
\* fetch t with the items the store answered
mapFilterResponseBegin(m, t, unmappedItems, remoteProjectLocale, remoteProjectId) ==
  mapFilterResponseMapped(m, t,
    mapItemsFrom(Registries(m), unmappedItems, 1, remoteProjectLocale, remoteProjectId),
    remoteProjectId)

\* Object.assign(target, source)
RECURSIVE ObjectAssignFrom(_, _, _)
ObjectAssignFrom(target, source, i) ==
  IF i > Len(source) THEN target
  ELSE ObjectAssignFrom(Set(target, source[i].id, source[i].val), source, i + 1)

ObjectAssign(target, source) == ObjectAssignFrom(target, source, 1)

\* remoteReferencesValues.reduce((result, current) => Object.assign(result, current)):
\* without an initial value the accumulator is the first bucket itself
RECURSIVE reduceAssignFrom(_, _, _)
reduceAssignFrom(acc, values, i) ==
  IF i > Len(values) THEN acc
  ELSE reduceAssignFrom(ObjectAssign(acc, values[i]), values, i + 1)

remoteReferencesFirst(remote) ==
  IF Len(remote) > 0 THEN remote[1].val ELSE <<>>

remoteReferencesMerged(remote) ==
  IF Len(remote) > 0
  THEN reduceAssignFrom(remote[1].val, [i \in 1..Len(remote) |-> remote[i].val], 2)
  ELSE <<>>

\* the MapResponse, and the registry object the reduce has written to
MapResponse(m, t, merged) ==
  [remoteReferences |->
     IF Len(m.remoteReferences) > 0
     THEN [m.remoteReferences EXCEPT ![1].val = merged]
     ELSE m.remoteReferences,
   ret |-> [returned |-> TRUE,
            failed |-> FALSE,
            mappedItems |-> findResolvedReferencesByIds(m.tasks[t].itemIds,
                                                        m.resolvedReferences),
            referenceMap |-> ObjectAssign(ObjectAssign(<<>>, m.referencedItems), merged),
            resolvedReferences |-> m.resolvedReferences]]

mapFilterResponseEndRemoteOnly(m, t) ==
  MapResponse([m EXCEPT !.referencedItems = <<>>], t,
              remoteReferencesMerged(m.remoteReferences))

\* mapFilterResponse after the await
mapFilterResponseEnd(m, t) ==
  MapResponse(m, t, remoteReferencesMerged(m.remoteReferences))

\* the early return of fetchByFilter when the store answers no item
NoItems == [NotReturned EXCEPT !.returned = TRUE]

\* a call that does not await the fetches it issued
ChildrenDoneNotAwaited(ts, p) == TRUE

ChildrenDone(ts, p) ==
  \A c \in 1..Len(ts) : ts[c].parent = p => ts[c].status = "done"

\* fetch p resolves with the response of its mapFilterResponse call
Resolved(m, p, end) ==
  [m EXCEPT !.remoteReferences = end.remoteReferences,
            !.tasks[p].status = "done",
            !.result = IF m.tasks[p].parent = 0 THEN end.ret ELSE @]

\* the Promise.all joins: once every fetch issued by the mapFilterResponse
\* call of p has resolved, that call runs to its end and fetch p resolves,
\* which may in turn complete the join of the call that issued p
RECURSIVE join(_, _)
join(m, p) ==
  IF p = 0 THEN m
  ELSE IF m.tasks[p].status # "awaiting" \/ ~ChildrenDone(m.tasks, p) THEN m
  ELSE join(Resolved(m, p, mapFilterResponseEnd(m, p)), m.tasks[p].parent)

----------------------------------------------------------------------------
(* The store                                                               *)

Item(identifier, fsType, formData) ==
  [mapped |-> FALSE, identifier |-> identifier, fsType |-> fsType,
   formData |-> formData, children |-> <<>>, locale |-> <<>>]

\* a PageRef or GCAPage with its page bodies, each a sequence of contents
Page(identifier, fsType, children, formData) ==
  [Item(identifier, fsType, formData) EXCEPT !.children = children]

\* a child of a page body
Content(identifier, fsType, formData) ==
  [identifier |-> identifier, fsType |-> fsType, formData |-> formData]

Entry(key, fsType, identifier, remoteProject, resolution) ==
  [key |-> key, fsType |-> fsType, value |-> TRUE, identifier |-> identifier,
   remoteProject |-> remoteProject, resolution |-> resolution, items |-> <<>>]

\* a CMS_INPUT_LIST entry: its value is the list of its child entries
List(key, items) ==
  [Entry(key, "CMS_INPUT_LIST", <<>>, <<>>, <<>>) EXCEPT !.items = items]

\* an entry whose value is null
Valueless(key, fsType) ==
  [Entry(key, fsType, <<>>, <<>>, <<>>) EXCEPT !.value = FALSE]

\* the rh:doc array the CaaS answers a fetch with: the items of the project
\* whose identifier is asked for, in the requested locale
CaaSResponse(task) ==
  LET docs  == Get(store, task.remoteProject, <<>>)
      match == SelectSeq(docs, LAMBDA d :
                 \E i \in 1..Len(task.ids) : task.ids[i] = d.identifier)
  IN  [i \in 1..Len(match) |-> [match[i] EXCEPT !.locale = task.locale]]

----------------------------------------------------------------------------
(* Scenarios: request locale, configured remote projects, content of the   *)
(* store, and the top-level fetch.                                         *)

NoResolution == <<>>

Local == <<>>

RemotesCfg == << RemoteEntry(<<"m">>, <<"de">>), RemoteEntry(<<"r">>, <<>>) >>

Scenario(loc, docsLocal, docsM, docsR, topProject, topIds) ==
  [locale |-> loc, remotes |-> RemotesCfg,
   store |-> << [id |-> Local, val |-> docsLocal],
                [id |-> <<"m">>, val |-> docsM],
                [id |-> <<"r">>, val |-> docsR] >>,
   top |-> [remoteProject |-> topProject, ids |-> topIds]]

\* a references b, b references a
Cycle ==
  Scenario(<<"en">>,
    << Item(<<"a">>, "Dataset",
         << Entry(<<"ds">>, "FS_DATASET", <<"b">>, Local, NoResolution) >>),
       Item(<<"b">>, "Dataset",
         << Entry(<<"ds">>, "FS_DATASET", <<"a">>, Local, NoResolution) >>) >>,
    <<>>, <<>>, Local, << <<"a">> >>)

\* a references the local b and the remote x; x references y
LocalAndRemote ==
  Scenario(<<"en">>,
    << Item(<<"a">>, "PageRef",
         << Entry(<<"ds">>, "FS_DATASET", <<"b">>, Local, NoResolution),
            Entry(<<"img">>, "FS_REFERENCE", <<"x">>, <<"m">>, NoResolution) >>),
       Item(<<"b">>, "Dataset", <<>>) >>,
    << Item(<<"x">>, "Media",
         << Entry(<<"alt">>, "FS_REFERENCE", <<"y">>, Local, NoResolution) >>),
       Item(<<"y">>, "Media", <<>>) >>,
    <<>>, Local, << <<"a">> >>)

\* a -> b -> c -> d
Chain ==
  Scenario(<<"en">>,
    << Item(<<"a">>, "PageRef",
         << Entry(<<"ds">>, "FS_DATASET", <<"b">>, Local, NoResolution) >>),
       Item(<<"b">>, "Dataset",
         << Entry(<<"ds">>, "FS_DATASET", <<"c">>, Local, NoResolution) >>),
       Item(<<"c">>, "Dataset",
         << Entry(<<"ds">>, "FS_DATASET", <<"d">>, Local, NoResolution) >>),
       Item(<<"d">>, "Dataset", <<>>) >>,
    <<>>, <<>>, Local, << <<"a">> >>)

\* b referenced from two paths and in both spellings, z missing from the
\* store, an image map, a field without reference, a reference into a
\* remote project that is not configured
FanIn ==
  Scenario(<<"en">>,
    << Item(<<"a">>, "GCAPage",
         << Entry(<<"f1">>, "FS_DATASET", <<"b">>, Local, NoResolution),
            Entry(<<"f2">>, "FS_INDEX", <<"b", ".", "en">>, Local, NoResolution),
            Entry(<<"f3">>, "FS_REFERENCE", <<"z">>, Local, NoResolution),
            Entry(<<"f4">>, "CMS_INPUT_IMAGEMAP", <<"p">>, Local, <<"ORIGINAL">>),
            Entry(<<"f5">>, "CMS_INPUT_TEXT", <<"text">>, Local, NoResolution),
            Entry(<<"f7">>, "FS_BUTTON", <<"b">>, Local, NoResolution),
            Entry(<<"f6">>, "FS_REFERENCE", <<"q">>, <<"u">>, NoResolution) >>),
       Item(<<"b">>, "Dataset", <<>>),
       Item(<<"p">>, "Media", <<>>),
       Item(<<"q">>, "Media", <<>>) >>,
    <<>>, <<>>, Local, << <<"a">> >>)

\* b referenced with a locale that is not the request locale
OtherLocale ==
  Scenario(<<"en">>,
    << Item(<<"a">>, "ProjectProperties",
         << Entry(<<"ds">>, "FS_DATASET", <<"b", ".", "de">>, Local, NoResolution) >>),
       Item(<<"b">>, "Dataset", <<>>) >>,
    <<>>, <<>>, Local, << <<"a">> >>)

\* a top-level request into the remote project m, one item of unknown kind
RemoteTop ==
  Scenario(<<"de">>,
    <<>>,
    << Item(<<"x">>, "Media",
         << Entry(<<"alt">>, "FS_REFERENCE", <<"y">>, Local, NoResolution),
            Entry(<<"map">>, "CMS_INPUT_IMAGEMAP", <<"p">>, Local, <<"ORIGINAL">>) >>),
       Item(<<"u">>, "Unknown",
         << Entry(<<"ds">>, "FS_DATASET", <<"y">>, Local, NoResolution) >>),
       Item(<<"y">>, "Media", <<>>),
       Item(<<"p">>, "Media", <<>>) >>,
    <<>>, <<"m">>, << <<"x">>, <<"u">> >>)

\* references into two remote projects
TwoRemotes ==
  Scenario(<<"en">>,
    << Item(<<"a">>, "PageRef",
         << Entry(<<"i1">>, "FS_REFERENCE", <<"x">>, <<"m">>, NoResolution),
            Entry(<<"i2">>, "FS_REFERENCE", <<"y">>, <<"r">>, NoResolution) >>) >>,
    << Item(<<"x">>, "Media", <<>>) >>,
    << Item(<<"y">>, "Dataset",
         << Entry(<<"ds">>, "FS_DATASET", <<"w">>, Local, NoResolution) >>),
       Item(<<"w">>, "Dataset", <<>>) >>,
    Local, << <<"a">> >>)

\* a batch of two top-level items: a references b, which is in the batch,
\* and c and d; d references c again
Batch ==
  Scenario(<<"en">>,
    << Item(<<"a">>, "Dataset",
         << Entry(<<"r1">>, "FS_DATASET", <<"b">>, Local, NoResolution),
            Entry(<<"r2">>, "FS_DATASET", <<"c">>, Local, NoResolution),
            Entry(<<"r3">>, "FS_DATASET", <<"d">>, Local, NoResolution) >>),
       Item(<<"b">>, "Unknown", <<>>),
       Item(<<"c">>, "Dataset", <<>>),
       Item(<<"d">>, "Dataset",
         << Entry(<<"ds">>, "FS_DATASET", <<"c">>, Local, NoResolution) >>) >>,
    <<>>, <<>>, Local, << <<"a">>, <<"b">> >>)

\* a page whose body holds a section and a content of unrecognized kind
BadBody ==
  Scenario(<<"en">>,
    << Page(<<"a">>, "PageRef",
         << << Content(<<"s1">>, "Section",
                 << Entry(<<"st">>, "FS_REFERENCE", <<"b">>, Local, NoResolution) >>),
               Content(<<"s2">>, "Teaser", <<>>),
               Content(<<"s3">>, "Content2Section", <<>>),
               Content(<<"s4">>, "GCASection",
                 << Entry(<<"st">>, "FS_DATASET", <<"c">>, Local, NoResolution) >>) >> >>,
         << Entry(<<"ds">>, "FS_DATASET", <<"d">>, Local, NoResolution) >>),
       Item(<<"b">>, "Media", <<>>),
       Item(<<"c">>, "Dataset", <<>>),
       Item(<<"d">>, "Dataset", <<>>) >>,
    <<>>, <<>>, Local, << <<"a">>, <<"b">> >>)

\* a references the page q, whose body holds a content of unrecognized
\* kind, and the well-formed page g
NestedBadBody ==
  Scenario(<<"en">>,
    << Item(<<"a">>, "Dataset",
         << Entry(<<"r1">>, "FS_DATASET", <<"g">>, Local, NoResolution),
            Entry(<<"r2">>, "FS_REFERENCE", <<"q">>, <<"r">>, NoResolution) >>),
       Page(<<"g">>, "GCAPage",
         << << Content(<<"s1">>, "SectionReference",
                 << Entry(<<"st">>, "FS_DATASET", <<"c">>, Local, NoResolution) >>) >> >>,
         <<>>),
       Item(<<"c">>, "Dataset", <<>>) >>,
    <<>>,
    << Page(<<"q">>, "PageRef",
         << << Content(<<"s1">>, "Teaser", <<>>) >> >>, <<>>) >>,
    Local, << <<"a">> >>)

\* a top-level query that matches nothing
Nothing ==
  Scenario(<<"en">>, <<>>, <<>>, <<>>, Local, << <<"a">> >>)

Scenarios ==
  {Cycle, LocalAndRemote, Chain, FanIn, OtherLocale, RemoteTop, TwoRemotes, Batch,
   BadBody, NestedBadBody, Nothing}

----------------------------------------------------------------------------
(* Construction.  An optional number is the empty set (undefined) or a     *)
(* singleton.                                                              *)

Nullish(opt, default) == IF opt = {} THEN default ELSE CHOOSE n \in opt : TRUE

MaxDepthOptions == {{}} \cup {{n} : n \in 0..MaxDepth}

ReferenceDepthOptions == {{}} \cup {{n} : n \in 1..(MaxDepth + 1)}

NoCall ==
  [op |-> "none", identifier |-> <<>>, path |-> <<>>,
   remoteProjectId |-> <<>>, imageMapResolution |-> <<>>,
   config |-> NoRemote, entries |-> <<>>, order |-> <<>>, normalized |-> FALSE,
   threw |-> FALSE,
   hooked |-> <<>>, ret |-> <<>>]

\* utils without customMapper
NoHook == [defined |-> FALSE, intercepts |-> {}]

\* the second call has not come as far as constructing its mapper
NoMapper ==
  [referencedItems |-> <<>>, remoteReferences |-> <<>>,
   resolvedReferences |-> <<>>, referenceDepth |-> 0,
   tasks |-> <<>>, result |-> NotReturned]

\* new CaaSMapper(api, locale, utils, logger), and the top-level fetch in flight
Constructed(sc, u) ==
  /\ locale = sc.locale
  /\ remotes = sc.remotes
  /\ utils = u
  /\ customMapper = IF "customMapper" \in DOMAIN u THEN u.customMapper ELSE NoHook
  /\ referenceDepth = Nullish(u.referenceDepth, 0)
  /\ maxReferenceDepth = Nullish(u.maxReferenceDepth, DEFAULT_MAX_REFERENCE_DEPTH)
  /\ resolvedReferences = <<>>
  /\ referencedItems = <<>>
  /\ remoteReferences = [i \in 1..Len(sc.remotes) |-> [id |-> sc.remotes[i].id, val |-> <<>>]]
  /\ store = sc.store
  /\ tasks = << Fetch(sc.top.remoteProject, sc.locale, sc.top.ids, 0) >>
  /\ result = NotReturned
  /\ call = NoCall
  /\ other = NoMapper

Init ==
  \E sc \in Scenarios, d \in MaxDepthOptions, r \in ReferenceDepthOptions :
    Constructed(sc, [referenceDepth |-> r, maxReferenceDepth |-> d])

----------------------------------------------------------------------------
(* One top-level request                                                   *)

Mapper ==
  [referencedItems |-> referencedItems, remoteReferences |-> remoteReferences,
   resolvedReferences |-> resolvedReferences, referenceDepth |-> referenceDepth,
   tasks |-> tasks, result |-> result]

Becomes(m) ==
  /\ referencedItems' = m.referencedItems
  /\ remoteReferences' = m.remoteReferences
  /\ resolvedReferences' = m.resolvedReferences
  /\ referenceDepth' = m.referenceDepth
  /\ tasks' = m.tasks
  /\ result' = m.result
  /\ UNCHANGED <<locale, remotes, utils, customMapper, maxReferenceDepth, store, call, other>>

\* fetchByFilter from the answer of the store on: no item, the early return
FetchAnswersNoItems(t) ==
  /\ tasks[t].status = "inflight"
  /\ Len(CaaSResponse(tasks[t])) = 0
  /\ Becomes(join([Mapper EXCEPT
                     !.tasks[t].status = "done",
                     !.result = IF tasks[t].parent = 0 THEN NoItems ELSE @],
                  tasks[t].parent))

\* fetchByFilter from the answer of the store on: the items go through
\* mapFilterResponse, which issues the next fetches and awaits them
FetchAnswersItems(t) ==
  /\ tasks[t].status = "inflight"
  /\ Len(CaaSResponse(tasks[t])) > 0
  /\ Becomes(join(mapFilterResponseBegin(Mapper, t, CaaSResponse(tasks[t]),
                    getRemoteConfigForProject(tasks[t].remoteProject).locale,
                    tasks[t].remoteProject),
                  t))

Next ==
  \/ \E t \in 1..Len(tasks) : FetchAnswersNoItems(t)
  \/ \E t \in 1..Len(tasks) : FetchAnswersItems(t)

Spec == Init /\ [][Next]_vars

----------------------------------------------------------------------------
(* One top-level request whose fetches may fail (a response that is not ok *)
(* or a network error)                                                     *)

Failures == Cardinality({ t \in 1..Len(tasks) : tasks[t].status = "failed" })

\* fetchByFilter throws where it awaits the answer of the store
FetchFails(t) ==
  /\ tasks[t].status = "inflight"
  /\ Failures < MaxFailures
  /\ Becomes(reject(Mapper, t, "failed"))

NextFailing ==
  \/ \E t \in 1..Len(tasks) : FetchAnswersNoItems(t)
  \/ \E t \in 1..Len(tasks) : FetchAnswersItems(t)
  \/ \E t \in 1..Len(tasks) : FetchFails(t)

SpecFailing == Init /\ [][NextFailing]_vars

----------------------------------------------------------------------------
(* Direct calls of resolveReferencesPerProject, made by a round of the     *)
(* top-level mapFilterResponse call after a batch of items has registered  *)
(* many references                                                         *)

\* the key of the n-th reference into a project
ManyKey(n, project) ==
  IF project = Local THEN <<ToString(n), ".", "en">>
  ELSE project \o <<"#", ToString(n), ".", "de">>

\* a bucket of n keys, each registered at one path
ManyKeys(n, project) ==
  [k \in 1..n |-> [id |-> ManyKey(k, project),
                   val |-> << << <<"a", ".", "en">>, <<"data">>, <<ToString(k)>> >> >>]]

\* the first c of the keys are cached
ManyCached(c, project) ==
  [k \in 1..c |-> [id |-> ManyKey(k, project),
                   val |-> Item(<<ToString(k)>>, "Dataset", <<>>)]]

InitBatches ==
  \E n \in 0..MaxIds, c \in 0..1, project \in {Local, <<"m">>} :
    /\ c <= n
    /\ locale = <<"en">>
    /\ remotes = RemotesCfg
    /\ utils = [referenceDepth |-> {}, maxReferenceDepth |-> {}]
    /\ customMapper = NoHook
    /\ maxReferenceDepth = DEFAULT_MAX_REFERENCE_DEPTH
    /\ referenceDepth = 1
    /\ resolvedReferences = ManyCached(c, project)
    /\ referencedItems = IF project = Local THEN ManyKeys(n, project) ELSE <<>>
    /\ remoteReferences =
         [i \in 1..Len(RemotesCfg) |->
            [id |-> RemotesCfg[i].id,
             val |-> IF project = RemotesCfg[i].id THEN ManyKeys(n, project) ELSE <<>>]]
    /\ store = Nothing.store
    /\ tasks = << [Fetch(Local, <<"en">>, << <<"a">> >>, 0)
                    EXCEPT !.status = "awaiting",
                           !.itemIds = << <<"a", ".", "en">> >>] >>
    /\ result = NotReturned
    /\ call = NoCall
    /\ other = NoMapper

CallResolveReferencesPerProject(remoteProjectId) ==
  /\ call.op = "none"
  /\ tasks' = tasks \o resolveReferencesPerProject(remoteProjectId, resolvedReferences,
                                                   Registries(Mapper), 1)
  /\ call' = [NoCall EXCEPT !.op = "resolveReferencesPerProject",
                            !.remoteProjectId = remoteProjectId]
  /\ UNCHANGED <<locale, remotes, utils, customMapper, maxReferenceDepth,
                 referenceDepth, resolvedReferences, referencedItems,
                 remoteReferences, store, result, other>>

NextBatches ==
  \E project \in {Local, <<"m">>, <<"r">>} : CallResolveReferencesPerProject(project)

SpecBatches == InitBatches /\ [][NextBatches]_vars

----------------------------------------------------------------------------
(* fetchElement: one fetchByFilter call for one identifier, normalized,    *)
(* and what fetchElement makes of its answer                               *)

\* a value with the referenced item put in at the rest of a path: the value
\* itself, the media of an image map, the first element of a list
Inlined(val, rest, item) ==
  CASE rest = <<>> -> item
    [] rest = << <<"media">> >> -> [val EXCEPT !.media = item]
    [] rest = << Index(1) >> -> <<item>>
    [] OTHER -> val

\* one insertion point of a referenced item: a field of the data of `one`
InlinedAt(one, key, path, item) ==
  IF one.mapped /\ Len(path) >= 3 /\ path[1] = key /\ path[2] = <<"data">>
  THEN [one EXCEPT !.data =
          [i \in 1..Len(@) |->
             IF @[i].key = path[3]
             THEN [@[i] EXCEPT !.val = Inlined(@, SubSeq(path, 4, Len(path)), item)]
             ELSE @[i]]]
  ELSE one

RECURSIVE InlinedPaths(_, _, _, _, _)
InlinedPaths(one, key, paths, j, item) ==
  IF j > Len(paths) THEN one
  ELSE InlinedPaths(InlinedAt(one, key, paths[j], item), key, paths, j + 1, item)

RECURSIVE InlinedReferences(_, _, _, _, _)
InlinedReferences(one, key, referenceMap, i, resolved) ==
  IF i > Len(referenceMap) THEN one
  ELSE InlinedReferences(
         IF Has(resolved, referenceMap[i].id)
         THEN InlinedPaths(one, key, referenceMap[i].val, 1,
                           Get(resolved, referenceMap[i].id, <<>>))
         ELSE one,
         key, referenceMap, i + 1, resolved)

\* MappingUtils.denormalizeResolvedReferences: every insertion point of a
\* reference that has a cached item gets that item, the others keep their
\* placeholder.  The fields of the items asked for are filled in; the items
\* put in keep their own placeholders.
denormalizeResolvedReferences(mappedItems, referenceMap, resolved) ==
  [n \in 1..Len(mappedItems) |->
     IF mappedItems[n].mapped
     THEN InlinedReferences(mappedItems[n],
                            getItemId(mappedItems[n], mappedItems[n].remoteProjectId),
                            referenceMap, 1, resolved)
     ELSE mappedItems[n]]

NOT_FOUND == <<"NOT_FOUND">>

\* fetchElement from the answer of its fetchByFilter call on
fetchElement(response, normalized) ==
  IF Len(response.mappedItems) = 0
  THEN [threw |-> TRUE, ret |-> NOT_FOUND]
  ELSE [threw |-> FALSE,
        ret |-> IF normalized
                THEN [mappedItems |-> response.mappedItems,
                      referenceMap |-> response.referenceMap,
                      resolvedReferences |-> response.resolvedReferences]
                ELSE denormalizeResolvedReferences(response.mappedItems,
                                                   response.referenceMap,
                                                   response.resolvedReferences)[1]]

\* fetchElement asks for one identifier
InitFetchElement ==
  \E sc \in Scenarios, d \in MaxDepthOptions :
    Constructed([sc EXCEPT !.top.ids = <<@[1]>>],
                [referenceDepth |-> {}, maxReferenceDepth |-> d])

FetchElementReturns(normalized) ==
  /\ result.returned
  /\ call.op = "none"
  /\ call' = [NoCall EXCEPT !.op = "fetchElement",
                            !.normalized = normalized,
                            !.threw = fetchElement(result, normalized).threw,
                            !.ret = fetchElement(result, normalized).ret]
  /\ UNCHANGED <<locale, remotes, utils, customMapper, maxReferenceDepth,
                 referenceDepth, resolvedReferences, referencedItems,
                 remoteReferences, store, tasks, result, other>>

NextFetchElement ==
  \/ \E t \in 1..Len(tasks) : FetchAnswersNoItems(t)
  \/ \E t \in 1..Len(tasks) : FetchAnswersItems(t)
  \/ \E normalized \in BOOLEAN : FetchElementReturns(normalized)

SpecFetchElement == InitFetchElement /\ [][NextFetchElement]_vars

----------------------------------------------------------------------------
(* Two top-level requests to one FSXARemoteApi, running concurrently: the  *)
(* first as above, the second with the mapper fetchByFilter constructs for *)
(* it                                                                      *)

constructorSharing(u) ==
  [referencedItems |-> <<>>,
   remoteReferences |-> [i \in 1..Len(remotes) |-> [id |-> remotes[i].id, val |-> <<>>]],
   resolvedReferences |-> resolvedReferences,
   referenceDepth |-> Nullish(u.referenceDepth, 0),
   tasks |-> <<>>, result |-> NotReturned]

\* the fields of a new CaaSMapper
constructor(u) ==
  [referencedItems |-> <<>>,
   remoteReferences |-> [i \in 1..Len(remotes) |-> [id |-> remotes[i].id, val |-> <<>>]],
   resolvedReferences |-> <<>>,
   referenceDepth |-> Nullish(u.referenceDepth, 0),
   tasks |-> <<>>, result |-> NotReturned]

\* what the second caller asks for: a, b, and an id the store does not hold
OtherTops ==
  { [remoteProject |-> Local, ids |-> << <<"a">> >>],
    [remoteProject |-> Local, ids |-> << <<"b">> >>],
    [remoteProject |-> Local, ids |-> << <<"none">> >>] }

ConcurrentScenarios == { Cycle, LocalAndRemote, FanIn }

InitConcurrent ==
  \E sc \in ConcurrentScenarios, d \in MaxDepthOptions :
    Constructed(sc, [referenceDepth |-> {}, maxReferenceDepth |-> d])

\* the steps of the second request leave the first mapper alone
OtherBecomes(m) ==
  /\ other' = m
  /\ UNCHANGED <<locale, remotes, utils, customMapper, maxReferenceDepth, referenceDepth,
                 resolvedReferences, referencedItems, remoteReferences, store,
                 tasks, result, call>>

\* fetchByFilter called without a mapper: mapper || new CaaSMapper(this,
\* mapperLocale, {customMapper, maxReferenceDepth}, logger)
OtherFetchByFilter(top) ==
  /\ other = NoMapper
  /\ OtherBecomes([constructor([referenceDepth |-> {},
                                maxReferenceDepth |-> {maxReferenceDepth}])
                    EXCEPT !.tasks = << Fetch(top.remoteProject, locale, top.ids, 0) >>])

OtherAnswersNoItems(t) ==
  /\ other.tasks[t].status = "inflight"
  /\ Len(CaaSResponse(other.tasks[t])) = 0
  /\ OtherBecomes(join([other EXCEPT
                          !.tasks[t].status = "done",
                          !.result = IF other.tasks[t].parent = 0 THEN NoItems ELSE @],
                       other.tasks[t].parent))

OtherAnswersItems(t) ==
  /\ other.tasks[t].status = "inflight"
  /\ Len(CaaSResponse(other.tasks[t])) > 0
  /\ OtherBecomes(join(mapFilterResponseBegin(other, t, CaaSResponse(other.tasks[t]),
                         getRemoteConfigForProject(other.tasks[t].remoteProject).locale,
                         other.tasks[t].remoteProject),
                       t))

NextConcurrent ==
  \/ \E t \in 1..Len(tasks) : FetchAnswersNoItems(t)
  \/ \E t \in 1..Len(tasks) : FetchAnswersItems(t)
  \/ \E top \in OtherTops : OtherFetchByFilter(top)
  \/ \E t \in 1..Len(other.tasks) : OtherAnswersNoItems(t)
  \/ \E t \in 1..Len(other.tasks) : OtherAnswersItems(t)

SpecConcurrent == InitConcurrent /\ [][NextConcurrent]_vars

----------------------------------------------------------------------------
(* Direct calls of unifyId                                                 *)

UnifyIdentifiers ==
  { <<"a">>, <<"b">>, <<"a", "b">>,
    <<"a", ".", "de">>, <<"a", ".", "en">>, <<"b", ".", "de">>,
    <<"a", "b", ".", "de">>,
    <<"a", ".", "de", ".", "x">>, <<"a", ".", "en", ".", "de">>,
    <<"a", "b", ".", "en", ".", "x">>,
    <<".", "de">>, <<>> }

UnifyConfigs ==
  { NoRemote, RemoteEntry(<<"m">>, <<"de">>), RemoteEntry(<<"r">>, <<>>),
    RemoteEntry(<<"s">>, <<"en">>), RemoteEntry(<<"m">>, <<"en">>),
    RemoteEntry(<<"m", ".", "x">>, <<"de">>) }

Locales == { <<"en">>, <<"de">> }

InitDirect ==
  \E loc \in Locales :
    Constructed([FanIn EXCEPT !.locale = loc],
                [referenceDepth |-> {}, maxReferenceDepth |-> {}])

CallUnifyId(id, remoteProjectConfiguration) ==
  /\ call' = [NoCall EXCEPT !.op = "unifyId",
                            !.identifier = id,
                            !.config = remoteProjectConfiguration,
                            !.ret = unifyId(id, remoteProjectConfiguration)]
  /\ UNCHANGED <<locale, remotes, utils, customMapper, maxReferenceDepth, referenceDepth,
                 resolvedReferences, referencedItems, remoteReferences, store,
                 tasks, result, other>>

NextUnify ==
  \E id \in UnifyIdentifiers, cfg \in UnifyConfigs : CallUnifyId(id, cfg)

SpecUnify == InitDirect /\ [][NextUnify]_vars

----------------------------------------------------------------------------
(* Direct calls of registerReferencedItem (the method is public and is     *)
(* handed to custom mappers)                                               *)

RegisterIdentifiers == { <<"a">>, <<"a", ".", "de">> }

RegisterPaths == { << <<"p">> >>, << <<"p">>, <<"0">> >> }

\* none, two configured remote projects, one that is not configured
RegisterProjects == { <<>>, <<"m">>, <<"r">>, <<"u">> }

RegisterResolutions == { <<>>, <<"ORIGINAL">> }

RECURSIVE CountPaths(_, _)
CountPaths(bucket, i) ==
  IF i > Len(bucket) THEN 0 ELSE Len(bucket[i].val) + CountPaths(bucket, i + 1)

RECURSIVE CountRemotePaths(_, _)
CountRemotePaths(remote, i) ==
  IF i > Len(remote) THEN 0
  ELSE CountPaths(remote[i].val, 1) + CountRemotePaths(remote, i + 1)

Registrations == CountPaths(referencedItems, 1) + CountRemotePaths(remoteReferences, 1)

RegisterReturns(reg, identifier, path, remoteProjectId, imageMapResolution) ==
  /\ referencedItems' = reg.referencedItems
  /\ remoteReferences' = reg.remoteReferences
  /\ call' = [NoCall EXCEPT !.op = "registerReferencedItem",
                            !.identifier = identifier,
                            !.path = path,
                            !.remoteProjectId = remoteProjectId,
                            !.imageMapResolution = imageMapResolution,
                            !.ret = reg.ret]

CallRegisterReferencedItem(identifier, path, remoteProjectId, imageMapResolution) ==
  /\ Registrations < MaxRegistrations
  /\ RegisterReturns(registerReferencedItem(Registries(Mapper), identifier, path,
                                            remoteProjectId, imageMapResolution),
                     identifier, path, remoteProjectId, imageMapResolution)
  /\ UNCHANGED <<locale, remotes, utils, customMapper, maxReferenceDepth, referenceDepth,
                 resolvedReferences, store, tasks, result, other>>

NextRegister ==
  \E id \in RegisterIdentifiers, path \in RegisterPaths,
     rp \in RegisterProjects, res \in RegisterResolutions :
    CallRegisterReferencedItem(id, path, rp, res)

SpecRegister == InitDirect /\ [][NextRegister]_vars

----------------------------------------------------------------------------
(* Direct calls of mapDataEntries (the method is handed to custom mappers) *)

\* entries of the built-in kinds and of a kind the mapper does not know
MapEntryKinds == {"FS_DATASET", "FS_REFERENCE", "CMS_INPUT_TEXT", "FS_BUTTON"}

MapEntryKeys == << <<"k1">>, <<"k2">> >>

\* an image map around the media x of project m, and one without value
ImageMaps(key) ==
  { Entry(key, "CMS_INPUT_IMAGEMAP", <<"x">>, <<"m">>, <<"ORIGINAL">>),
    Valueless(key, "CMS_INPUT_IMAGEMAP") }

FirstEntries ==
  { Entry(MapEntryKeys[1], k, <<"a">>, Local, NoResolution) : k \in MapEntryKinds }
  \cup ImageMaps(MapEntryKeys[1])

SecondEntries ==
  { Entry(MapEntryKeys[2], k, <<"b", ".", "de">>, Local, NoResolution) : k \in MapEntryKinds }
  \cup ImageMaps(MapEntryKeys[2])

\* the objects of one or two entries
MapEntries ==
  { <<e>> : e \in FirstEntries }
  \cup { <<e1, e2>> : e1 \in FirstEntries, e2 \in SecondEntries }

MapDataEntriesReturns(reg, entries, path, remoteProjectId) ==
  /\ referencedItems' = reg.referencedItems
  /\ remoteReferences' = reg.remoteReferences
  /\ call' = [NoCall EXCEPT !.op = "mapDataEntries",
                            !.entries = entries,
                            !.path = path,
                            !.remoteProjectId = remoteProjectId,
                            !.threw = reg.threw,
                            !.hooked = reg.hooked,
                            !.ret = reg.ret]

CallMapDataEntries(entries, path, remoteProjectId) ==
  /\ Registrations < MaxRegistrations
  /\ MapDataEntriesReturns(mapDataEntries(Registries(Mapper), entries, path,
                                          remoteProjectId),
                           entries, path, remoteProjectId)
  /\ UNCHANGED <<locale, remotes, utils, customMapper, maxReferenceDepth, referenceDepth,
                 resolvedReferences, store, tasks, result, other>>

MapImageMapReturns(reg, imageMap, path, remoteProjectId) ==
  /\ referencedItems' = reg.referencedItems
  /\ remoteReferences' = reg.remoteReferences
  /\ call' = [NoCall EXCEPT !.op = "mapImageMap",
                            !.entries = <<imageMap>>,
                            !.path = path,
                            !.remoteProjectId = remoteProjectId,
                            !.threw = reg.threw,
                            !.ret = reg.ret]

CallMapImageMap(imageMap, path, remoteProjectId) ==
  /\ Registrations < MaxRegistrations
  /\ MapImageMapReturns(mapImageMap(Registries(Mapper), imageMap, path,
                                    remoteProjectId),
                        imageMap, path, remoteProjectId)
  /\ UNCHANGED <<locale, remotes, utils, customMapper, maxReferenceDepth, referenceDepth,
                 resolvedReferences, store, tasks, result, other>>

\* where the mapped object sits, and the project of the item it belongs to
MapPaths == { << <<"p">> >> }

MapProjects == { <<>>, <<"m">> }

NextMapDataEntries ==
  \/ \E entries \in MapEntries, path \in MapPaths, rp \in MapProjects :
       CallMapDataEntries(entries, path, rp)
  \/ \E imageMap \in ImageMaps(MapEntryKeys[1]), path \in MapPaths,
        rp \in MapProjects :
       CallMapImageMap(imageMap, path, rp)

SpecMapDataEntries == InitDirect /\ [][NextMapDataEntries]_vars

----------------------------------------------------------------------------
(* Direct calls of mapDataEntries and of mapDataEntry for a list, on a     *)
(* mapper with a customMapper or without                                   *)

\* no hook, a hook that maps nothing itself, hooks that map some kinds
Hooks ==
  { NoHook,
    [defined |-> TRUE, intercepts |-> {}],
    [defined |-> TRUE, intercepts |-> {"FS_DATASET"}],
    [defined |-> TRUE, intercepts |-> {"CMS_INPUT_TEXT"}] }

InitCustomMapper ==
  \E hook \in Hooks :
    Constructed(FanIn, [referenceDepth |-> {}, maxReferenceDepth |-> {},
                        customMapper |-> hook])

\* the kinds the first, the second and the third sibling can be of
HookedKinds ==
  << {"FS_DATASET", "CMS_INPUT_TEXT"}, {"FS_DATASET", "CMS_INPUT_TEXT"},
     {"FS_DATASET"} >>

HookedIdentifiers == << <<"a">>, <<"b", ".", "de">>, <<"c">> >>

HookedKeys == << <<"k1">>, <<"k2">>, <<"k3">> >>

\* the objects of two or three entries
HookedEntries ==
  UNION { { [i \in 1..n |-> Entry(HookedKeys[i], kinds[i], HookedIdentifiers[i],
                                  Local, NoResolution)] :
            kinds \in { f \in [1..n -> UNION { HookedKinds[i] : i \in 1..n }] :
                          \A i \in 1..n : f[i] \in HookedKinds[i] } } : n \in 2..3 }

\* the orders in which n siblings can go on
Orders(n) == { o \in [1..n -> 1..n] : \A i, j \in 1..n : o[i] = o[j] => i = j }

\* without a hook nothing is awaited before the switch: the siblings are
\* mapped in the order they are started in
OrdersOf(n) == IF customMapper.defined THEN Orders(n) ELSE { [i \in 1..n |-> i] }

AwaitingReturns(reg, op, entries, path, remoteProjectId, order) ==
  /\ referencedItems' = reg.referencedItems
  /\ remoteReferences' = reg.remoteReferences
  /\ call' = [NoCall EXCEPT !.op = op,
                            !.entries = entries,
                            !.path = path,
                            !.remoteProjectId = remoteProjectId,
                            !.order = order,
                            !.threw = reg.threw,
                            !.hooked = reg.hooked,
                            !.ret = reg.ret]
  /\ UNCHANGED <<locale, remotes, utils, customMapper, maxReferenceDepth,
                 referenceDepth, resolvedReferences, store, tasks, result, other>>

CallMapDataEntriesAwaiting(entries, path, remoteProjectId, order) ==
  /\ Registrations < MaxRegistrations
  /\ AwaitingReturns(mapDataEntriesAwaiting(Registries(Mapper), entries, path,
                                            remoteProjectId, order),
                     "mapDataEntries", entries, path, remoteProjectId, order)

CallMapListEntry(entry, path, remoteProjectId, order) ==
  /\ Registrations < MaxRegistrations
  /\ AwaitingReturns(mapListEntry(Registries(Mapper), entry, path,
                                  remoteProjectId, order),
                     "mapDataEntry", entry.items, path, remoteProjectId, order)

NextCustomMapper ==
  \/ \E entries \in HookedEntries :
       \E order \in OrdersOf(Len(entries)) :
         CallMapDataEntriesAwaiting(entries, << <<"p">> >>, Local, order)
  \/ \E entries \in HookedEntries :
       \E order \in OrdersOf(Len(entries)) :
         CallMapListEntry(List(<<"l">>, entries), << <<"p">>, <<"l">> >>,
                          Local, order)

SpecCustomMapper == InitCustomMapper /\ [][NextCustomMapper]_vars

----------------------------------------------------------------------------
(* Vocabulary of the properties                                            *)

\* the fetches issued by the mapper (every fetch but the top-level one)
NestedFetches == 2..Len(tasks)

InSeq(x, seq) == \E i \in 1..Len(seq) : seq[i] = x

\* what precedes the first c
RECURSIVE Before(_, _)
Before(str, c) ==
  IF str = <<>> \/ Head(str) = c THEN <<>>
  ELSE <<Head(str)>> \o Before(Tail(str), c)

\* what follows the first c
RECURSIVE After(_, _)
After(str, c) ==
  IF str = <<>> THEN <<>>
  ELSE IF Head(str) = c THEN Tail(str) ELSE After(Tail(str), c)

BeforeFirstDot(str) == Before(str, ".")

\* the project a key belongs to: what precedes "#", the local project if
\* there is no "#"
ProjectOf(key) == IF InSeq("#", key) THEN Before(key, "#") ELSE <<>>

\* a key without its project prefix
KeyBody(key) == IF InSeq("#", key) THEN After(key, "#") ELSE key

\* an entity of the store: a project and a uuid
Entity(project, uuid) == [project |-> project, uuid |-> uuid]

EntityOfKey(key) == Entity(ProjectOf(key), BeforeFirstDot(KeyBody(key)))

Docs(project) == Get(store, project, <<>>)

Exists(e) == \E i \in 1..Len(Docs(e.project)) : Docs(e.project)[i].identifier = e.uuid

DocOf(e) ==
  Docs(e.project)[CHOOSE i \in 1..Len(Docs(e.project)) :
                    Docs(e.project)[i].identifier = e.uuid]

ReferenceKinds == {"FS_REFERENCE", "FS_DATASET", "FS_INDEX", "CMS_INPUT_IMAGEMAP"}

ConfiguredProject(project) ==
  IF \E i \in 1..Len(remotes) : remotes[i].id = project THEN project ELSE <<>>

\* the entity a reference entry of an item of `project` is resolved from
Target(entry, project) ==
  Entity(CASE entry.fsType = "FS_REFERENCE" ->
                ConfiguredProject(IF entry.remoteProject # <<>>
                                  THEN entry.remoteProject ELSE project)
           [] entry.fsType = "CMS_INPUT_IMAGEMAP" ->
                ConfiguredProject(entry.remoteProject)
           [] OTHER -> project,
         BeforeFirstDot(entry.identifier))

References(e) ==
  IF Exists(e) /\ DocOf(e).fsType \in MappedKinds
  THEN { Target(DocOf(e).formData[i], e.project) :
           i \in { j \in 1..Len(DocOf(e).formData) :
                     DocOf(e).formData[j].fsType \in ReferenceKinds } }
  ELSE {}

TopLevel ==
  { e \in { Entity(tasks[1].remoteProject, tasks[1].ids[i]) : i \in 1..Len(tasks[1].ids) } :
      Exists(e) }

\* the entities at reference distance at most n of the top-level batch
RECURSIVE Within(_)
Within(n) ==
  IF n = 0 THEN TopLevel
  ELSE Within(n - 1) \cup UNION { References(e) : e \in Within(n - 1) }

IsCached(e, resolved) ==
  \E i \in 1..Len(resolved) : EntityOfKey(resolved[i].id) = e

FetchedEntities ==
  UNION { { Entity(tasks[t].remoteProject, tasks[t].ids[i]) :
              i \in 1..Len(tasks[t].ids) } : t \in NestedFetches }

RegisteredKeys ==
  KeySet(referencedItems)
  \cup UNION { KeySet(remoteReferences[i].val) : i \in 1..Len(remoteReferences) }

\* a top-level request as fetchByFilter makes it: the mapper starts at depth 0
FreshMapper == utils.referenceDepth = {}

----------------------------------------------------------------------------
(* C1: within one top-level request at most one fetch batch containing an  *)
(* identifier is issued to the store: no two fetches issued by the mapper  *)
(* for the same project ask for the same identifier.                       *)

C1_AtMostOneFetchPerIdentifier ==
  \A t1, t2 \in NestedFetches :
    (t1 # t2 /\ tasks[t1].remoteProject = tasks[t2].remoteProject)
      => \A i \in 1..Len(tasks[t1].ids) : ~InSeq(tasks[t1].ids[i], tasks[t2].ids)

----------------------------------------------------------------------------
(* C2: with a references b and b references a, a top-level request for a   *)
(* with the default maxReferenceDepth returns, and a and b are then keys   *)
(* of resolvedReferences.                                                  *)

CycleRequest ==
  /\ store = Cycle.store
  /\ FreshMapper
  /\ utils.maxReferenceDepth = {}

CycleResolved ==
  /\ result.returned
  /\ Has(result.resolvedReferences, <<"a", ".", "en">>)
  /\ Has(result.resolvedReferences, <<"b", ".", "en">>)

InFlight == Cardinality({ t \in 1..Len(tasks) : tasks[t].status = "inflight" })

\* until the call returns a fetch is in flight, and every answer of a fetch
\* either raises the depth counter, which is bounded, or leaves it and
\* lowers the number of fetches in flight: so the call returns once every
\* fetch is answered
C2_CycleTerminates ==
  /\ [](CycleRequest => /\ result.returned \/ InFlight > 0
                        /\ result.returned => CycleResolved
                        /\ referenceDepth <= maxReferenceDepth)
  /\ [][CycleRequest => \/ referenceDepth' > referenceDepth
                         \/ /\ referenceDepth' = referenceDepth
                            /\ InFlight' < InFlight]_vars

C2_Witness ==
  /\ CycleRequest
  /\ CycleResolved
  /\ InSeq(<<"b">>, tasks[Len(tasks)].ids)
  /\ Has(referencedItems, <<"a", ".", "en">>)

----------------------------------------------------------------------------
(* C3: with maxReferenceDepth = N >= 1, when the top-level call returns    *)
(* every entity of the store at reference distance at most N of the batch  *)
(* is cached, and no entity at distance N + 1 or more has been fetched.    *)

C3_DepthBound ==
  (result.returned /\ FreshMapper /\ maxReferenceDepth >= 1)
    => /\ \A e \in Within(maxReferenceDepth) :
            Exists(e) => IsCached(e, result.resolvedReferences)
       /\ \A e \in FetchedEntities : Exists(e) => e \in Within(maxReferenceDepth)

----------------------------------------------------------------------------
(* C4: with maxReferenceDepth = 0 the top-level call issues no fetch, and  *)
(* every registered identifier that is not a top-level item is absent      *)
(* from resolvedReferences.                                                *)

C4_DepthZero ==
  maxReferenceDepth = 0
    => /\ NestedFetches = {}
       /\ \A k \in RegisteredKeys :
            EntityOfKey(k) \notin TopLevel => ~Has(resolvedReferences, k)
       /\ result.returned => result.resolvedReferences = resolvedReferences

C4_Witness ==
  /\ maxReferenceDepth = 0
  /\ result.returned
  /\ \E k \in RegisteredKeys :
       /\ Exists(EntityOfKey(k))
       /\ EntityOfKey(k) \notin TopLevel
       /\ ~Has(result.resolvedReferences, k)

----------------------------------------------------------------------------
(* C5: a call of resolveAllReferences at referenceDepth >= maxReference-   *)
(* Depth issues no fetch and leaves referenceDepth unchanged, and a mapper *)
(* created with referenceDepth <= maxReferenceDepth never exceeds it.      *)

C5_DepthNeverExceedsMax ==
  /\ [](Nullish(utils.referenceDepth, 0) <= maxReferenceDepth
          => referenceDepth <= maxReferenceDepth)
  /\ [][referenceDepth >= maxReferenceDepth
          => /\ referenceDepth' = referenceDepth
             /\ Len(tasks') = Len(tasks)]_vars

\* a response with items was handled at the maximum depth, with an
\* uncached registered entity left
C5_Witness ==
  /\ maxReferenceDepth >= 1
  /\ referenceDepth = maxReferenceDepth
  /\ result.returned
  /\ Len(tasks) >= 3
  /\ \E k \in RegisteredKeys :
       Exists(EntityOfKey(k)) /\ ~IsCached(EntityOfKey(k), resolvedReferences)

----------------------------------------------------------------------------
(* C6: unifyId equals the reference function: an id with a "." after       *)
(* position 0 keeps what precedes its first "." and takes the locale of    *)
(* the configuration when that has one, and is kept as it is otherwise; an *)
(* id without "." gets "." and the locale of the configuration, else the   *)
(* request locale, appended; a given configuration prefixes its id and     *)
(* "#".  The call changes no registry, cache or depth state.               *)

UnifyReference(rawId, cfg) ==
  LET hasSeparator == \E i \in 2..Len(rawId) : rawId[i] = "."
      withLocale ==
        IF hasSeparator
        THEN IF cfg.locale # <<>>
             THEN BeforeFirstDot(rawId) \o <<".">> \o cfg.locale
             ELSE rawId
        ELSE rawId \o <<".">> \o (IF cfg.locale # <<>> THEN cfg.locale ELSE locale)
  IN  IF cfg.defined THEN cfg.id \o <<"#">> \o withLocale ELSE withLocale

C6_UnifyIdIsReference ==
  /\ [](call.op = "unifyId"
          => call.ret = UnifyReference(call.identifier, call.config))
  /\ [][call'.op = "unifyId"
          => UNCHANGED <<referencedItems, remoteReferences, resolvedReferences,
                         referenceDepth>>]_vars

C6_Witness ==
  /\ call.op = "unifyId"
  /\ call.identifier = <<"a", ".", "de", ".", "x">>
  /\ call.config = RemoteEntry(<<"m">>, <<"en">>)
  /\ call.ret = <<"m", "#", "a", ".", "en">>

----------------------------------------------------------------------------
(* C7: every key of the local registry, of every remote registry bucket    *)
(* and of resolvedReferences is canonical: uuid "." locale, both non-      *)
(* empty, optionally prefixed by the key of a remote project and "#".      *)

Canonical(key) ==
  /\ InSeq(".", KeyBody(key))
  /\ Before(KeyBody(key), ".") # <<>>
  /\ After(KeyBody(key), ".") # <<>>
  /\ ~InSeq(".", After(KeyBody(key), "."))
  /\ ~InSeq("#", KeyBody(key))
  /\ InSeq("#", key) => \E i \in 1..Len(remotes) : remotes[i].id = ProjectOf(key)

C7_KeysAreCanonical ==
  \A k \in RegisteredKeys \cup KeySet(resolvedReferences) : Canonical(k)

\* a remote top-level request: a local key, a remote key, and the cache key
\* of an item of unknown kind
C7_Witness ==
  /\ result.returned
  /\ Has(referencedItems, <<"p", ".", "de">>)
  /\ Has(Get(remoteReferences, <<"m">>, <<>>), <<"m", "#", "y", ".", "de">>)
  /\ Has(resolvedReferences, <<"m", "#", "u", ".", "de">>)

----------------------------------------------------------------------------
(* C8: registerReferencedItem returns IMAGEMAP___{resolution}___{c} when a *)
(* resolution is given, else [REFERENCED-REMOTE-ITEM-{c}] when the remote  *)
(* project is configured, else [REFERENCED-ITEM-{c}], c being the unified  *)
(* id; c is the key under which the path was recorded.                     *)

CallConfig == getRemoteConfigForProject(call.remoteProjectId)

CallKey == unifyId(call.identifier, CallConfig)

CallBucket ==
  IF CallConfig.defined
  THEN Get(remoteReferences, CallConfig.id, <<>>)
  ELSE referencedItems

C8_Placeholder ==
  call.op = "registerReferencedItem"
    => /\ call.ret =
            IF call.imageMapResolution # <<>>
            THEN <<"IMAGEMAP___">> \o call.imageMapResolution \o <<"___">> \o CallKey
            ELSE IF CallConfig.defined
                 THEN <<"[REFERENCED-REMOTE-ITEM-">> \o CallKey \o <<"]">>
                 ELSE <<"[REFERENCED-ITEM-">> \o CallKey \o <<"]">>
       /\ Has(CallBucket, CallKey)
       /\ Get(CallBucket, CallKey, <<>>)[Len(Get(CallBucket, CallKey, <<>>))] = call.path

C8_Witness ==
  /\ call.op = "registerReferencedItem"
  /\ call.remoteProjectId = <<"m">>
  /\ call.imageMapResolution = <<>>
  /\ call.ret = <<"[REFERENCED-REMOTE-ITEM-", "m", "#", "a", ".", "de", "]">>
  /\ Registrations = 2

----------------------------------------------------------------------------
(* C9: registerReferencedItem appends the path at the end of the path list *)
(* of the canonical id in one bucket (the remote project's when it is      *)
(* configured, else the local one) and changes nothing else.               *)

BucketAppended(old, new, key, path) ==
  /\ Get(new, key, <<>>) = Append(Get(old, key, <<>>), path)
  /\ KeySet(new) = KeySet(old) \cup {key}
  /\ Len(new) = Cardinality(KeySet(new))
  /\ \A k \in KeySet(old) \ {key} : Get(new, k, <<>>) = Get(old, k, <<>>)

C9_RegisterFrame ==
  [][LET cfg == getRemoteConfigForProject(call'.remoteProjectId)
         key == unifyId(call'.identifier, cfg)
     IN  /\ UNCHANGED <<resolvedReferences, referenceDepth, tasks, result>>
         /\ ObjectKeys(remoteReferences') = ObjectKeys(remoteReferences)
         /\ IF cfg.defined
            THEN /\ referencedItems' = referencedItems
                 /\ \A i \in 1..Len(remoteReferences) :
                      remoteReferences[i].id # cfg.id
                        => remoteReferences'[i] = remoteReferences[i]
                 /\ BucketAppended(Get(remoteReferences, cfg.id, <<>>),
                                   Get(remoteReferences', cfg.id, <<>>),
                                   key, call'.path)
            ELSE /\ remoteReferences' = remoteReferences
                 /\ BucketAppended(referencedItems, referencedItems', key, call'.path)
    ]_vars

\* the second path of one key
C9_Witness ==
  /\ call.op = "registerReferencedItem"
  /\ call.remoteProjectId = <<"r">>
  /\ Len(Get(Get(remoteReferences, <<"r">>, <<>>), <<"r", "#", "a", ".", "en">>, <<>>)) = 2

----------------------------------------------------------------------------
(* C10: registerReferencedItem with a remoteProjectId that has no remote   *)
(* configuration behaves as a local registration: the id is unified        *)
(* without configuration, the path goes to the local bucket, no remote     *)
(* bucket changes, the local placeholder is returned.                      *)

Unconfigured(projectId) ==
  projectId # <<>> /\ \A i \in 1..Len(remotes) : remotes[i].id # projectId

C10_UnconfiguredRemoteIsLocal ==
  [][Unconfigured(call'.remoteProjectId)
       => LET key == unifyId(call'.identifier, NoRemote)
          IN  /\ remoteReferences' = remoteReferences
              /\ BucketAppended(referencedItems, referencedItems', key, call'.path)
              /\ call'.ret =
                   IF call'.imageMapResolution # <<>>
                   THEN <<"IMAGEMAP___">> \o call'.imageMapResolution \o <<"___">> \o key
                   ELSE <<"[REFERENCED-ITEM-">> \o key \o <<"]">>
    ]_vars

C10_Witness ==
  /\ call.op = "registerReferencedItem"
  /\ call.remoteProjectId = <<"u">>
  /\ call.ret = <<"[REFERENCED-ITEM-", "a", ".", "en", "]">>
  /\ Has(referencedItems, <<"a", ".", "en">>)
  /\ \A i \in 1..Len(remoteReferences) : remoteReferences[i].val = <<>>

----------------------------------------------------------------------------
(* C11: during one top-level request the registry only grows: from a state *)
(* to its successor no key leaves a bucket, and the path list a key had is *)
(* a prefix of the path list it has.                                       *)

IsPrefix(short, long) ==
  Len(short) <= Len(long) /\ SubSeq(long, 1, Len(short)) = short

BucketGrows(old, new) ==
  \A k \in KeySet(old) : Has(new, k) /\ IsPrefix(Get(old, k, <<>>), Get(new, k, <<>>))

C11_RegistryGrows ==
  [][/\ BucketGrows(referencedItems, referencedItems')
     /\ \A i \in 1..Len(remoteReferences) :
          /\ Has(remoteReferences', remoteReferences[i].id)
          /\ BucketGrows(remoteReferences[i].val,
                         Get(remoteReferences', remoteReferences[i].id, <<>>))
    ]_vars

\* c was registered by the top-level batch and again by the answer for d;
\* the merge of the remote buckets has run
C11_Witness ==
  /\ store = Batch.store
  /\ result.returned
  /\ Len(Get(referencedItems, <<"c", ".", "en">>, <<>>)) = 2
  /\ Len(tasks) >= 2

----------------------------------------------------------------------------
(* C12: when mapFilterResponse has mapped a batch, every item of the batch *)
(* is a key of resolvedReferences before the fetches of its round go out:  *)
(* a fetch of the round asks for the uuid of an item of the batch only on  *)
(* behalf of another registered identifier (another locale) that is not    *)
(* cached.                                                                 *)

\* the canonical identifier of an item of the batch fetch t was answered with
BatchKey(t, item) ==
  (IF tasks[t].remoteProject # <<>> THEN tasks[t].remoteProject \o <<"#">> ELSE <<>>)
  \o item.identifier \o <<".">> \o tasks[t].locale

BatchKeys(t) ==
  { BatchKey(t, CaaSResponse(tasks[t])[j]) : j \in 1..Len(CaaSResponse(tasks[t])) }

\* fetch t is answered with items and mapFilterResponse maps them
Mapped(t) ==
  /\ tasks[t].status = "inflight"
  /\ tasks'[t].status \in {"awaiting", "done"}
  /\ Len(CaaSResponse(tasks[t])) > 0

BucketOf(project, local, remote) ==
  IF project # <<>> THEN Get(remote, project, <<>>) ELSE local

----------------------------------------------------------------------------
(* C14: the referenceMap mapFilterResponse returns has as keys exactly the *)
(* keys of the local bucket and of all remote buckets, each with the path  *)
(* list recorded for it in its bucket.                                     *)

PathsOf(key) ==
  Get(BucketOf(ProjectOf(key), referencedItems, remoteReferences), key, <<>>)

\* the top-level call has returned what mapFilterResponse returned
Assembled == result.returned /\ TopLevel # {}

C14_ReferenceMapIsUnion ==
  Assembled
    => /\ KeySet(result.referenceMap) = RegisteredKeys
       /\ Len(result.referenceMap) = Cardinality(RegisteredKeys)
       /\ \A k \in RegisteredKeys : Get(result.referenceMap, k, <<>>) = PathsOf(k)

\* keys of two remote buckets
C14_Witness ==
  /\ Assembled
  /\ Has(result.referenceMap, <<"m", "#", "x", ".", "de">>)
  /\ Has(result.referenceMap, <<"r", "#", "y", ".", "en">>)
  /\ Has(result.referenceMap, <<"r", "#", "w", ".", "en">>)

----------------------------------------------------------------------------
(* C13: the mappedItems mapFilterResponse returns has one entry per item   *)
(* of the batch, in the order of the batch, each the entry of              *)
(* resolvedReferences under the canonical identifier of that item: no item *)
(* is dropped, of a recognized kind, of an unrecognized kind or of a       *)
(* remote project.                                                         *)

C13_MappedItemsComplete ==
  Assembled
    => /\ Len(result.mappedItems) = Len(CaaSResponse(tasks[1]))
       /\ \A j \in 1..Len(CaaSResponse(tasks[1])) :
            /\ j <= Len(result.mappedItems)
            /\ Has(result.resolvedReferences, BatchKey(1, CaaSResponse(tasks[1])[j]))
            /\ result.mappedItems[j] =
                 Get(result.resolvedReferences,
                     BatchKey(1, CaaSResponse(tasks[1])[j]), <<>>)

----------------------------------------------------------------------------
(* C15: when the depth budget is exhausted while registered ids are not    *)
(* cached, or a fetch returns no entity for a registered id, the top-level *)
(* call still returns and throws no error; those ids are keys of the       *)
(* referenceMap and no keys of resolvedReferences.  (Every page body of    *)
(* the store holds recognized contents only and no fetch fails.)           *)

BodyKinds == SectionKinds \cup {"Content2Section"}

\* a page with a body content of unrecognized kind
BadContent(item) ==
  /\ item.fsType \in PageKinds
  /\ \E b \in 1..Len(item.children) :
       \E c \in 1..Len(item.children[b]) : item.children[b][c].fsType \notin BodyKinds

WellFormedStore ==
  \A p \in 1..Len(store) :
    \A d \in 1..Len(store[p].val) : ~BadContent(store[p].val[d])

\* a registered id the store has no entity for, or whose entity was never
\* fetched
Unresolved(key) ==
  \/ ~Exists(EntityOfKey(key))
  \/ EntityOfKey(key) \notin FetchedEntities \cup TopLevel

C15_UnresolvedIsNotFatal ==
  /\ [](WellFormedStore
          => /\ ~result.failed
             /\ result.returned \/ InFlight > 0
             /\ Assembled
                  => \A k \in RegisteredKeys :
                       Unresolved(k)
                         => /\ Has(result.referenceMap, k)
                            /\ ~Has(result.resolvedReferences, k))
  /\ [][WellFormedStore
          => \/ referenceDepth' > referenceDepth
             \/ /\ referenceDepth' = referenceDepth
                /\ InFlight' < InFlight]_vars

\* the budget of one round is used up with c registered and not fetched
C15_Witness ==
  /\ store = Chain.store
  /\ maxReferenceDepth = 1
  /\ Assembled
  /\ Has(result.referenceMap, <<"c", ".", "en">>)
  /\ Unresolved(<<"c", ".", "en">>)
  /\ referenceDepth = maxReferenceDepth

----------------------------------------------------------------------------
(* C16: if a batch fetch of a top-level request fails, the top-level call  *)
(* ends with the failure and returns no result, at whatever depth of       *)
(* rounds the failing fetch was issued.                                    *)

C16_FailureSurfaces ==
  (\E t \in 1..Len(tasks) : tasks[t].status = "failed")
    => result.failed /\ ~result.returned

\* a fetch issued by a nested round has failed
C16_Witness ==
  /\ result.failed
  /\ \E t \in 1..Len(tasks) :
       /\ tasks[t].status = "failed"
       /\ tasks[t].parent > 1
       /\ tasks[tasks[t].parent].status = "rejected"

----------------------------------------------------------------------------
(* C17: the engine does not retry: once a fetch asking for an identifier   *)
(* has failed, no fetch issued later asks the same project for that        *)
(* identifier.                                                             *)

C17_NoRetry ==
  [][\A t \in 1..Len(tasks) :
       tasks[t].status = "failed"
         => \A c \in (Len(tasks) + 1)..Len(tasks') :
              tasks'[c].remoteProject = tasks[t].remoteProject
                => \A i \in 1..Len(tasks'[c].ids) : ~InSeq(tasks'[c].ids[i], tasks[t].ids)
    ]_vars

----------------------------------------------------------------------------
(* C20: a page body child of a kind other than Content2Section, Section,   *)
(* SectionReference and GCASection makes the mapFilterResponse call that   *)
(* maps the page throw, and the top-level call fails: the page is not      *)
(* returned unmapped.                                                      *)

C20_BadBodyContentIsFatal ==
  \A t \in 1..Len(tasks) :
    \A j \in 1..Len(CaaSResponse(tasks[t])) :
      (tasks[t].status # "inflight" /\ BadContent(CaaSResponse(tasks[t])[j]))
        => /\ tasks[t].status = "rejected"
           /\ result.failed
           /\ ~result.returned
           /\ ~Has(resolvedReferences, BatchKey(t, CaaSResponse(tasks[t])[j]))

\* the page q was fetched by the round of the top-level batch
C20_Witness ==
  /\ store = NestedBadBody.store
  /\ result.failed
  /\ tasks[1].status = "rejected"
  /\ \E t \in NestedFetches :
       tasks[t].status = "rejected" /\ tasks[t].ids = << <<"q">> >>

----------------------------------------------------------------------------
(* C19: mapDataEntry returns an entry whose fsType is none of the built-in *)
(* kinds unchanged, throws no error and registers no reference for it; the *)
(* sibling entries are mapped as they are without it.                      *)

BuiltInKinds == ReferenceKinds \cup ValueKinds

KnownEntries(entries) == SelectSeq(entries, LAMBDA e : e.fsType \in BuiltInKinds)

\* the mapped siblings, the entries of unknown kind left out
KnownValues(values, entries) ==
  SelectSeq(values, LAMBDA v :
    \E i \in 1..Len(entries) :
      entries[i].key = v.key /\ entries[i].fsType \in BuiltInKinds)

C19_UnknownEntryPassesThrough ==
  [][call'.op = "mapDataEntries"
       => /\ ~call'.threw
          /\ Len(call'.ret) = Len(call'.entries)
          /\ \A i \in 1..Len(call'.entries) :
               /\ call'.ret[i].key = call'.entries[i].key
               /\ call'.entries[i].fsType \notin BuiltInKinds
                    => call'.ret[i].val = call'.entries[i]
          /\ referencedItems' =
               mapDataEntries(Registries(Mapper), KnownEntries(call'.entries),
                              call'.path, call'.remoteProjectId).referencedItems
          /\ remoteReferences' =
               mapDataEntries(Registries(Mapper), KnownEntries(call'.entries),
                              call'.path, call'.remoteProjectId).remoteReferences
          /\ KnownValues(call'.ret, call'.entries) =
               mapDataEntries(Registries(Mapper), KnownEntries(call'.entries),
                              call'.path, call'.remoteProjectId).ret
    ]_vars

\* an entry of unknown kind first, its sibling registered b
C19_Witness ==
  /\ call.op = "mapDataEntries"
  /\ Len(call.entries) = 2
  /\ call.entries[1].fsType = "FS_BUTTON"
  /\ call.entries[2].fsType = "FS_DATASET"
  /\ call.ret[1].val = call.entries[1]
  /\ call.ret[2].val = <<"[REFERENCED-ITEM-", "b", ".", "de", "]">>
  /\ KeySet(referencedItems) = { <<"b", ".", "de">> }

----------------------------------------------------------------------------
(* C18: registry, cache and depth counter belong to one top-level request. *)
(* The mapper fetchByFilter constructs for a call without mapper starts    *)
(* with an empty cache, empty buckets and depth 0; a step of one request   *)
(* leaves the mapper of the other as it is; a mapper serves one top-level  *)
(* fetch, every other fetch on it is a nested one issued by its own        *)
(* mapFilterResponse calls.                                                *)

EmptyBuckets(m) ==
  /\ m.referencedItems = <<>>
  /\ Len(m.remoteReferences) = Len(remotes)
  /\ \A i \in 1..Len(m.remoteReferences) :
       m.remoteReferences[i] = [id |-> remotes[i].id, val |-> <<>>]

OwnFetches(m) ==
  \A t \in 1..Len(m.tasks) :
    IF t = 1 THEN m.tasks[t].parent = 0 ELSE m.tasks[t].parent \in 1..(t - 1)

C18_RequestScoped ==
  /\ [](OwnFetches(Mapper) /\ OwnFetches(other))
  /\ [][/\ (other = NoMapper /\ other' # NoMapper)
            => /\ other'.resolvedReferences = <<>>
               /\ EmptyBuckets(other')
               /\ other'.referenceDepth = 0
               /\ Len(other'.tasks) = 1
        /\ other' # other => Mapper' = Mapper
        /\ Mapper' # Mapper => other' = other
       ]_vars

\* both requests have filled their caches, the second with less than the first
C18_Witness ==
  /\ resolvedReferences # <<>>
  /\ other.resolvedReferences # <<>>
  /\ other.result.returned
  /\ ~result.returned
  /\ KeySet(other.resolvedReferences) # KeySet(resolvedReferences)

----------------------------------------------------------------------------
(* C21: mapping an image map that has no value throws, when mapImageMap is *)
(* called directly and when the image map is reached through mapDataEntry. *)

ValuelessImageMap(entry) ==
  entry.fsType = "CMS_INPUT_IMAGEMAP" /\ ~entry.value

C21_ValuelessImageMapThrows ==
  [][(/\ call'.op \in {"mapImageMap", "mapDataEntries"}
      /\ \E i \in 1..Len(call'.entries) : ValuelessImageMap(call'.entries[i]))
       => call'.threw
    ]_vars

\* the direct call alone: it throws and registers nothing
DirectImageMapThrows ==
  [][(call'.op = "mapImageMap" /\ ValuelessImageMap(call'.entries[1]))
       => /\ call'.threw
          /\ UNCHANGED <<referencedItems, remoteReferences>>
    ]_vars

----------------------------------------------------------------------------
(* C22: with a customMapper, mapDataEntry calls it for every entry before  *)
(* the switch.  A defined result is what mapDataEntry returns, and the     *)
(* switch does not run for the entry: nothing is registered at its path.   *)
(* When the hook returns undefined the entry gets what the switch returns. *)

Intercepted(entry) ==
  customMapper.defined /\ entry.fsType \in customMapper.intercepts

\* the siblings of the last call, their paths and what they were mapped to
SiblingPath(c, i) ==
  c.path \o <<Segment(c.entries, i, c.op = "mapDataEntries")>>

SiblingValue(c, i) ==
  IF c.op = "mapDataEntries" THEN c.ret[i].val ELSE c.ret[i]

\* how often a path is registered in a bucket
Occurrences(bucket, path) ==
  Cardinality(UNION { { <<i, k>> : k \in { n \in 1..Len(bucket[i].val) :
                                            bucket[i].val[n] = path } } :
                      i \in 1..Len(bucket) })

Placeholder(identifier) ==
  <<"[REFERENCED-ITEM-">> \o unifyId(identifier, NoRemote) \o <<"]">>

C22_HookComesFirst ==
  [][call'.op \in {"mapDataEntries", "mapDataEntry"}
       => /\ ~call'.threw
          /\ Len(call'.ret) = Len(call'.entries)
          /\ IF customMapper.defined
             THEN /\ Len(call'.hooked) = Len(call'.entries)
                  /\ \A i \in 1..Len(call'.entries) :
                       \E k \in 1..Len(call'.hooked) :
                         call'.hooked[k] = SiblingPath(call', i)
             ELSE call'.hooked = <<>>
          /\ \A i \in 1..Len(call'.entries) :
               Occurrences(referencedItems', SiblingPath(call', i))
                 = Occurrences(referencedItems, SiblingPath(call', i))
                   + (IF /\ ~Intercepted(call'.entries[i])
                         /\ call'.entries[i].fsType = "FS_DATASET"
                      THEN 1 ELSE 0)
          /\ \A i \in 1..Len(call'.entries) :
               CASE Intercepted(call'.entries[i]) ->
                      SiblingValue(call', i) = CustomResult(call'.entries[i]).value
                 [] call'.entries[i].fsType = "FS_DATASET" ->
                      SiblingValue(call', i) = Placeholder(call'.entries[i].identifier)
                 [] OTHER ->
                      SiblingValue(call', i) = call'.entries[i].identifier
    ]_vars

\* the hook maps the first sibling itself and leaves the second to the switch
C22_Witness ==
  /\ call.op = "mapDataEntries"
  /\ Len(call.entries) = 2
  /\ Intercepted(call.entries[1])
  /\ call.entries[1].fsType = "FS_DATASET"
  /\ call.entries[2].fsType = "CMS_INPUT_TEXT"
  /\ call.ret[1].val = CustomResult(call.entries[1]).value
  /\ call.ret[2].val = call.entries[2].identifier
  /\ referencedItems = <<>>

----------------------------------------------------------------------------
(* C23: mapDataEntries returns the keys of its input in the order of the   *)
(* input, each with the mapped value of its own entry, and the list case   *)
(* of mapDataEntry returns the mapped children at the positions of the     *)
(* children, in whatever order the sibling mappings complete.              *)

\* what the i-th sibling of the call is mapped to, whenever it is mapped
MappedSibling(c, i) ==
  mapDataEntry(Registries(Mapper), c.entries[i], SiblingPath(c, i),
               c.remoteProjectId).ret

C23_ResultKeepsInputOrder ==
  [][call'.op \in {"mapDataEntries", "mapDataEntry"}
       => /\ Len(call'.ret) = Len(call'.entries)
          /\ \A i \in 1..Len(call'.entries) :
               /\ call'.op = "mapDataEntries"
                    => call'.ret[i].key = call'.entries[i].key
               /\ SiblingValue(call', i) = MappedSibling(call', i)
    ]_vars

\* three siblings mapped to three different values, the last completing first
C23_Witness ==
  /\ call.op \in {"mapDataEntries", "mapDataEntry"}
  /\ Len(call.entries) = 3
  /\ call.order = <<3, 1, 2>>
  /\ call.hooked = << SiblingPath(call, 3), SiblingPath(call, 1), SiblingPath(call, 2) >>
  /\ \A i \in 1..3 : call.entries[i].fsType = "FS_DATASET"
  /\ ~Intercepted(call.entries[1])
  /\ \A i \in 1..3 : SiblingValue(call, i) = Placeholder(call.entries[i].identifier)

----------------------------------------------------------------------------
(* C24: fetchElement throws NOT_FOUND when the fetch for the identifier    *)
(* yields no item; when it yields items, fetchElement returns the first,   *)
(* denormalized, or with normalized = true the three structures of the     *)
(* response.                                                               *)

\* the items the store answered the top-level fetch with
Yielded == CaaSResponse(tasks[1])

ElementReturned ==
  IF call'.normalized
  THEN /\ call'.ret.mappedItems = result.mappedItems
       /\ call'.ret.referenceMap = result.referenceMap
       /\ call'.ret.resolvedReferences = result.resolvedReferences
       /\ Len(call'.ret.mappedItems) = Len(Yielded)
  ELSE call'.ret = denormalizeResolvedReferences(result.mappedItems,
                     result.referenceMap, result.resolvedReferences)[1]

C24_FetchElement ==
  [][call'.op = "fetchElement"
       => IF Len(Yielded) = 0
          THEN call'.threw /\ call'.ret = NOT_FOUND
          ELSE ~call'.threw /\ ElementReturned
    ]_vars

\* the same for the local project alone
LocalFetchElement ==
  [][(call'.op = "fetchElement" /\ tasks[1].remoteProject = Local)
       => IF Len(Yielded) = 0
          THEN call'.threw /\ call'.ret = NOT_FOUND
          ELSE ~call'.threw /\ ElementReturned
    ]_vars

----------------------------------------------------------------------------
(* C25: a top-level mapFilterResponse call performs one fetch round: every *)
(* fetch of the request is issued by the top-level call itself, an entity  *)
(* referenced only by a fetched entity is not fetched, and referenceDepth  *)
(* is 1 when the call has returned.                                        *)

\* the top-level call has mapped items and may run a round
RoundRan ==
  /\ FreshMapper
  /\ maxReferenceDepth >= 1
  /\ result.returned
  /\ Len(CaaSResponse(tasks[1])) > 0

C25_OneRoundPerCall ==
  RoundRan
    => /\ referenceDepth = 1
       /\ \A t \in 2..Len(tasks) : tasks[t].parent = 1

----------------------------------------------------------------------------
(* C26: referenceDepth is raised once per round, a round being the wave of *)
(* fetches one resolveAllReferences call issues for the local project and  *)
(* the remote projects in all their batches: of the answers to one wave at *)
(* most one raises the counter, however many of them hold entities.        *)

\* fetch t has been answered with entities
AnsweredWithItems(t) ==
  tasks[t].status # "inflight" /\ tasks[t].itemIds # <<>>

\* the fetches of the wave of t that were answered before t
AnsweredSiblings(t) ==
  { s \in 1..Len(tasks) :
      s # t /\ tasks[s].parent = tasks[t].parent /\ AnsweredWithItems(s) }

C26_OneIncrementPerWave ==
  [][\A t \in 1..Len(tasks) :
       (/\ tasks[t].parent > 0
        /\ tasks[t].status = "inflight"
        /\ tasks'[t].status # "inflight"
        /\ referenceDepth' > referenceDepth)
         => AnsweredSiblings(t) = {}
    ]_vars

----------------------------------------------------------------------------
(* C27: the ids a round requests for a project are the store ids of the    *)
(* keys of the bucket of the project that are no keys of resolvedReferences*)
(* when the round runs, in the order of the bucket; no requested id comes  *)
(* from a key that is cached.                                              *)

Projects == {Local} \cup { remotes[i].id : i \in 1..Len(remotes) }

\* the ids of the fetches from..to of ts that go to project, in issue order
RECURSIVE RequestedIds(_, _, _, _)
RequestedIds(ts, from, to, project) ==
  IF from > to THEN <<>>
  ELSE (IF ts[from].remoteProject = project THEN ts[from].ids ELSE <<>>)
       \o RequestedIds(ts, from + 1, to, project)

UncachedKeys(bucket, resolved) ==
  SelectSeq(ObjectKeys(bucket), LAMBDA k : ~Has(resolved, k))

C27_RequestsAreTheUncachedKeys ==
  [][referenceDepth' > referenceDepth
       => \A project \in Projects :
            RequestedIds(tasks', Len(tasks) + 1, Len(tasks'), project)
              = [i \in 1..Len(UncachedKeys(BucketOf(project, referencedItems',
                                                    remoteReferences'),
                                           resolvedReferences')) |->
                   StoreId(UncachedKeys(BucketOf(project, referencedItems',
                                                 remoteReferences'),
                                        resolvedReferences')[i])]
    ]_vars

\* the second round has left the cached key of b and requested c
C27_Witness ==
  /\ referenceDepth = 2
  /\ Has(referencedItems, <<"b", ".", "en">>)
  /\ Has(resolvedReferences, <<"b", ".", "en">>)
  /\ Has(referencedItems, <<"c", ".", "en">>)
  /\ Len(tasks) = 3
  /\ tasks[3].parent = 2
  /\ tasks[3].ids = << <<"c">> >>

----------------------------------------------------------------------------
(* C28: when the fetch for a registered key returns the entity, the mapped *)
(* entity is cached under that very key, for a local id without locale,    *)
(* for an id with a locale other than the request locale and for a remote  *)
(* id alike.                                                               *)

\* the registered keys fetch t asks for and is answered an entity for
AnsweredKeys(t) ==
  { k \in KeySet(BucketOf(tasks[t].remoteProject, referencedItems, remoteReferences)) :
      /\ \E j \in 1..Len(tasks[t].ids) : tasks[t].ids[j] = StoreId(k)
      /\ \E i \in 1..Len(CaaSResponse(tasks[t])) :
           CaaSResponse(tasks[t])[i].identifier = StoreId(k) }

C28_CachedUnderRegisteredKey ==
  [][\A t \in 1..Len(tasks) :
       (/\ tasks[t].parent > 0
        /\ tasks[t].status = "inflight"
        /\ tasks'[t].status \in {"awaiting", "done"})
         => \A k \in AnsweredKeys(t) : Has(resolvedReferences', k)
    ]_vars

\* the same for the keys that carry the locale the fetch asks in
SameLocaleCachedUnderRegisteredKey ==
  [][\A t \in 1..Len(tasks) :
       (/\ tasks[t].parent > 0
        /\ tasks[t].status = "inflight"
        /\ tasks'[t].status \in {"awaiting", "done"})
         => \A k \in AnsweredKeys(t) :
              After(k, ".") = tasks[t].locale => Has(resolvedReferences', k)
    ]_vars

----------------------------------------------------------------------------
(* C29: for n ids to fetch resolveReferencesPerProject issues ceil(n/30)   *)
(* fetches; every batch but the last holds 30 ids, the last 1 to 30; the   *)
(* batches in issue order make up the id list; no fetch is issued for      *)
(* n = 0.                                                                  *)

\* the keys of the project of the call that are not cached
ToFetch ==
  UncachedKeys(BucketOf(call'.remoteProjectId, referencedItems, remoteReferences),
               resolvedReferences)

C29_Batches ==
  [][call'.op = "resolveReferencesPerProject"
       => /\ Len(tasks') - Len(tasks)
               = (Len(ToFetch) + REFERENCED_ITEMS_CHUNK_SIZE - 1)
                   \div REFERENCED_ITEMS_CHUNK_SIZE
          /\ \A t \in (Len(tasks) + 1)..Len(tasks') :
               /\ tasks'[t].remoteProject = call'.remoteProjectId
               /\ tasks'[t].status = "inflight"
               /\ Len(tasks'[t].ids) \in 1..REFERENCED_ITEMS_CHUNK_SIZE
               /\ t < Len(tasks') => Len(tasks'[t].ids) = REFERENCED_ITEMS_CHUNK_SIZE
          /\ RequestedIds(tasks', Len(tasks) + 1, Len(tasks'), call'.remoteProjectId)
               = [i \in 1..Len(ToFetch) |-> StoreId(ToFetch[i])]
    ]_vars

\* 65 ids to fetch: three batches of 30, 30 and 5
C29_Witness ==
  /\ call.op = "resolveReferencesPerProject"
  /\ Len(referencedItems) = 65
  /\ resolvedReferences = <<>>
  /\ Len(tasks) = 4
  /\ Len(tasks[2].ids) = 30
  /\ Len(tasks[3].ids) = 30
  /\ Len(tasks[4].ids) = 5
  /\ tasks[4].ids[5] = <<"65">>

----------------------------------------------------------------------------
(* C30: the store id resolveReferencesPerProject derives from a registered *)
(* key is the uuid of the raw id the key was made from: for a raw id given *)
(* as uuid or as uuid.locale and for the local project or a remote project,*)
(* StoreId(unifyId(r, cfg)) is the part of r before its first ".".         *)

C30_StoreIdIsTheUuid ==
  call.op = "unifyId" => StoreId(call.ret) = BeforeFirstDot(call.identifier)

\* the same for the projects whose id holds no "."
UndottedStoreIdIsTheUuid ==
  (call.op = "unifyId" /\ ~InSeq(".", call.config.id))
    => StoreId(call.ret) = BeforeFirstDot(call.identifier)

----------------------------------------------------------------------------
(* C31: two fetch-and-map operations of one top-level request that are in  *)
(* flight at the same time write disjoint sets of cache keys: the batches  *)
(* of one round, the batches of different projects and the batches of the  *)
(* rounds re-entered from answered batches.                                *)

\* the keys mapped items are cached under; nothing is cached when a mapper
\* has thrown
CachedKeys(mapping, remoteProjectId) ==
  IF mapping.threw THEN {}
  ELSE KeySet(addAllToResolvedReferences(<<>>, mapping.ret, 1, remoteProjectId))

\* the keys the answer to fetch t is cached under
WrittenKeys(t) ==
  CachedKeys(mapItemsFrom(Registries(Mapper), CaaSResponse(tasks[t]), 1,
                          getRemoteConfigForProject(tasks[t].remoteProject).locale,
                          tasks[t].remoteProject),
             tasks[t].remoteProject)

C31_ConcurrentWritesAreDisjoint ==
  \A s, t \in 1..Len(tasks) :
    (s < t /\ tasks[s].status = "inflight" /\ tasks[t].status = "inflight")
      => WrittenKeys(s) \cap WrittenKeys(t) = {}

\* the same for the fetches one resolveAllReferences call issues
SameRoundWritesAreDisjoint ==
  \A s, t \in 1..Len(tasks) :
    (/\ s < t
     /\ tasks[s].parent = tasks[t].parent
     /\ tasks[s].status = "inflight"
     /\ tasks[t].status = "inflight")
      => WrittenKeys(s) \cap WrittenKeys(t) = {}

----------------------------------------------------------------------------
(* C32: a round is joined before it counts as complete: when the top-level *)
(* call has returned successfully, no fetch of the request is in flight or *)
(* awaited any more, and resolvedReferences, the buckets and               *)
(* referenceDepth stay as they are from then on.                           *)

ReturnedSuccessfully == result.returned /\ ~result.failed

C32_JoinedBeforeReturn ==
  /\ [](ReturnedSuccessfully
          => \A t \in 1..Len(tasks) : tasks[t].status = "done")
  /\ [][ReturnedSuccessfully
          => UNCHANGED <<resolvedReferences, referencedItems, remoteReferences,
                         referenceDepth>>]_vars

\* the request has returned after rounds re-entered from answered fetches
\* into two projects
C32_Witness ==
  /\ ReturnedSuccessfully
  /\ referenceDepth >= 3
  /\ \E s, t \in NestedFetches :
       /\ tasks[s].remoteProject # tasks[t].remoteProject
       /\ tasks[t].parent > 1

----------------------------------------------------------------------------
(* C33: in every reachable state the bucket of a remote project holds only *)
(* keys registered for that project (prefixed with its id and "#") and the *)
(* local bucket only local keys; building the referenceMap changes no      *)
(* bucket.                                                                 *)

C33_BucketsHoldOwnKeys ==
  /\ \A k \in KeySet(referencedItems) : ~InSeq("#", k)
  /\ \A i \in 1..Len(remoteReferences) :
       \A k \in KeySet(remoteReferences[i].val) :
         InSeq("#", k) /\ ProjectOf(k) = remoteReferences[i].id

\* the same for the local bucket and every remote bucket but the first
LaterBucketsHoldOwnKeys ==
  /\ \A k \in KeySet(referencedItems) : ~InSeq("#", k)
  /\ \A i \in 2..Len(remoteReferences) :
       \A k \in KeySet(remoteReferences[i].val) :
         InSeq("#", k) /\ ProjectOf(k) = remoteReferences[i].id

----------------------------------------------------------------------------
(* C34: for a fixed store, input batch and maxReferenceDepth the key set   *)
(* of resolvedReferences at the return of the top-level call is the same   *)
(* for every order in which the concurrent fetches are answered: it is the *)
(* key set of the run that answers the fetches in the order of their issue.*)

\* the mapper of the request as constructed, its top-level fetch in flight
AsConstructed ==
  [referencedItems |-> <<>>,
   remoteReferences |-> [i \in 1..Len(remotes) |-> [id |-> remotes[i].id, val |-> <<>>]],
   resolvedReferences |-> <<>>,
   referenceDepth |-> Nullish(utils.referenceDepth, 0),
   tasks |-> << Fetch(tasks[1].remoteProject, tasks[1].locale, tasks[1].ids, 0) >>,
   result |-> NotReturned]

\* the fetch in flight that was issued first
FirstInFlight(ts) ==
  CHOOSE t \in 1..Len(ts) :
    /\ ts[t].status = "inflight"
    /\ \A s \in 1..(t - 1) : ts[s].status # "inflight"

\* fetch t of m is answered
Answered(m, t) ==
  IF Len(CaaSResponse(m.tasks[t])) = 0
  THEN join([m EXCEPT !.tasks[t].status = "done",
                      !.result = IF m.tasks[t].parent = 0 THEN NoItems ELSE @],
            m.tasks[t].parent)
  ELSE join(mapFilterResponseBegin(m, t, CaaSResponse(m.tasks[t]),
              getRemoteConfigForProject(m.tasks[t].remoteProject).locale,
              m.tasks[t].remoteProject),
            t)

\* the run that answers the fetches in the order of their issue
RECURSIVE AnsweredInIssueOrder(_)
AnsweredInIssueOrder(m) ==
  IF \A t \in 1..Len(m.tasks) : m.tasks[t].status # "inflight" THEN m
  ELSE AnsweredInIssueOrder(Answered(m, FirstInFlight(m.tasks)))

C34_KeysIndependentOfAnswerOrder ==
  ReturnedSuccessfully
    => KeySet(resolvedReferences)
         = KeySet(AnsweredInIssueOrder(AsConstructed).resolvedReferences)

----------------------------------------------------------------------------
(* C35: every top-level request terminates when every fetch is answered,   *)
(* for stores with cycles, with registered ids the store does not hold and *)
(* with several remote projects: until the call has returned or thrown a   *)
(* fetch is in flight, every answer raises the depth counter or leaves it  *)
(* and lowers the number of fetches in flight, the resolveAllReferences    *)
(* calls that issue fetches are at most maxReferenceDepth, and the fetches *)
(* are at most one per registered key and issuing call, plus the top one.  *)

\* the mapFilterResponse calls whose resolveAllReferences call issued fetches
IssuingCalls == { tasks[t].parent : t \in NestedFetches }

RECURSIVE RemoteKeyCount(_, _)
RemoteKeyCount(remote, i) ==
  IF i > Len(remote) THEN 0
  ELSE Len(remote[i].val) + RemoteKeyCount(remote, i + 1)

\* the keys of all buckets
BucketKeyCount == Len(referencedItems) + RemoteKeyCount(remoteReferences, 1)

C35_RequestTerminates ==
  /\ [](/\ result.returned \/ result.failed \/ InFlight > 0
        /\ Cardinality(IssuingCalls) <= maxReferenceDepth
        /\ Cardinality(IssuingCalls)
             <= referenceDepth - Nullish(utils.referenceDepth, 0)
        /\ Len(tasks) - 1 <= Cardinality(IssuingCalls) * BucketKeyCount)
  /\ [][\/ referenceDepth' > referenceDepth
        \/ /\ referenceDepth' = referenceDepth
           /\ InFlight' < InFlight]_vars

\* a request into two remote projects has returned after three issuing calls
\* with a registered id the store does not hold
C35_Witness ==
  /\ store = NestedBadBody.store \/ store = TwoRemotes.store \/ store = FanIn.store
  /\ result.returned \/ result.failed
  /\ InFlight = 0
  /\ Cardinality(IssuingCalls) >= 2
  /\ \E k \in RegisteredKeys : ~Exists(EntityOfKey(k))

----------------------------------------------------------------------------
(* C36: a reference that names no remote project of its own and is met     *)
(* while an entity of the remote project P is mapped is registered in the  *)
(* bucket of P and not in the local bucket, whether it is a media          *)
(* reference, a dataset reference, an index entry or the media of an image *)
(* map.                                                                    *)

\* the path a reference entry of the data of item d is registered at
ReferencePath(d, entry, project) ==
  <<getItemId(d, project), <<"data">>, entry.key>>
  \o (CASE entry.fsType = "FS_INDEX" -> << <<"0">> >>
        [] entry.fsType = "CMS_INPUT_IMAGEMAP" -> << <<"media">> >>
        [] OTHER -> <<>>)

\* the data entries of kind in kinds of the mapped items fetch t was
\* answered with that hold a reference without a remote project of its own
InheritingReferences(t, kinds) ==
  UNION { { <<i, j>> : j \in { n \in 1..Len(CaaSResponse(tasks[t])[i].formData) :
                                 /\ CaaSResponse(tasks[t])[i].formData[n].fsType \in kinds
                                 /\ CaaSResponse(tasks[t])[i].formData[n].value
                                 /\ CaaSResponse(tasks[t])[i].formData[n].remoteProject
                                      = <<>> } } :
          i \in { n \in 1..Len(CaaSResponse(tasks[t])) :
                    CaaSResponse(tasks[t])[n].fsType \in MappedKinds } }

\* the references of the kinds met in remote entities are in the bucket of
\* the project of the entity, at their path, and not in the local bucket
KeepRemoteContext(kinds) ==
  \A t \in 1..Len(tasks) :
    (/\ tasks[t].status \in {"awaiting", "done"}
     /\ ConfiguredProject(tasks[t].remoteProject) # Local)
      => \A ij \in InheritingReferences(t, kinds) :
           /\ InSeq(ReferencePath(CaaSResponse(tasks[t])[ij[1]],
                                  CaaSResponse(tasks[t])[ij[1]].formData[ij[2]],
                                  tasks[t].remoteProject),
                    Get(BucketOf(tasks[t].remoteProject, referencedItems,
                                 remoteReferences),
                        unifyId(CaaSResponse(tasks[t])[ij[1]].formData[ij[2]].identifier,
                                getRemoteConfigForProject(tasks[t].remoteProject)),
                        <<>>))
           /\ Occurrences(referencedItems,
                          ReferencePath(CaaSResponse(tasks[t])[ij[1]],
                                        CaaSResponse(tasks[t])[ij[1]].formData[ij[2]],
                                        tasks[t].remoteProject)) = 0

C36_RemoteContextIsInherited == KeepRemoteContext(ReferenceKinds)

\* the same for the kinds other than the image map
FieldReferencesInheritRemoteContext ==
  KeepRemoteContext(ReferenceKinds \ {"CMS_INPUT_IMAGEMAP"})

----------------------------------------------------------------------------
(* C37: unifyId without a remote configuration is idempotent: for every    *)
(* raw id x, unifyId(unifyId(x)) = unifyId(x), so an id that is already    *)
(* canonical is registered under the same key.                             *)

UnifyIdIsIdempotentOnUuids ==
  (/\ call.op = "unifyId"
   /\ ~call.config.defined
   /\ BeforeFirstDot(call.identifier) # <<>>)
    => unifyId(call.ret, NoRemote) = call.ret

====
